---- MODULE Spec2Model ----
(***************************************************************************)
(* Model of the client-side real-time state synchronisation core:          *)
(*   StateManager      (ReactiveStore)      static/js/core/StateManager.js *)
(*   EventBus, WebSocketManager (ConnectionManager), LoadingStateManager   *)
(*                                       static/js/core/WebSocketManager.js*)
(* Every public operation is one action; the callbacks an operation runs   *)
(* synchronously (watchers, subscribers) are run inside that action by     *)
(* recursive operators, so re-entrant calls are part of the same step.     *)
(***************************************************************************)
EXTENDS Integers, Sequences, FiniteSets, TLC

VARIABLES
    \* ---- StateManager ----
    state,        \* this.state: the proxied target object, present keys -> value
    listeners,    \* this.listeners: Map key -> array of watcher callbacks
    history,      \* this.history: array of history records
    now,          \* Date.now(), a non-decreasing clock
    storeObs,     \* observation of the last store operation (what it did)
    effLog,       \* every record handed to addHistory since construction, in order
    clearedAt,    \* how many of them preceded the last clearing of the history
    steps,        \* number of steps the store has taken (bounds the run)
    script,       \* workload of the history-capacity specification
    heap,         \* the objects that exist: reference -> own properties
    snapshot,     \* the object the last getState() call returned, as its caller holds it
    \* ---- EventBus ----
    events,       \* this.events: Map eventName -> array of subscribed functions
    onceRuns,     \* per wrapper made by once(), how often its callback has run
    busObs,       \* observation of the last bus operation
    busSteps,     \* number of bus operations performed (bounds the run)
    \* ---- WebSocketManager ----
    sockets,          \* the WebSocket objects made by connect(): slot -> readyState
    socket,           \* this.socket: a slot, or Null
    isConnected,      \* this.isConnected
    heartbeatTimer,   \* this.heartbeatTimer: an interval id, or Null
    intervals,        \* the interval timers that are set and not cleared
    reconnectTimers,  \* number of pending reconnect timeouts
    messageHandlers,  \* this.messageHandlers: Map type -> array of handlers
    connObs,          \* observation of the last connection operation
    nConnects,        \* number of connect() calls made by the application
    closeSeen,        \* close() has been called on an open, beating, subscribed manager
    \* ---- LoadingStateManager ----
    loadingStates,    \* this.loadingStates: Map taskId -> state object
    cleanupTimers,    \* the pending setTimeout callbacks of finishLoading, oldest first
    time,             \* the clock, in seconds; Date.now() is time * 1000
    visible,          \* the loading container is shown (not "hidden")
    deadline,         \* per tracked entry, the earliest time at which the grace
                      \* delay of a finishLoading of that entry is over
                      \* (NotFinalized when the entry has not been finished)
    progObs,          \* observation of the last tracker operation
    progSteps         \* number of tracker operations performed (bounds the run)

storeVars == <<state, listeners, history, now, storeObs, effLog, clearedAt, steps, script,
               heap, snapshot>>
busVars == <<events, onceRuns, busObs, busSteps>>
connVars == <<sockets, socket, isConnected, heartbeatTimer, intervals, reconnectTimers,
              messageHandlers, connObs, nConnects, closeSeen>>
progVars == <<loadingStates, cleanupTimers, time, visible, deadline, progObs, progSteps>>
vars == <<storeVars, busVars, connVars, progVars>>

(***************************************************************************)
(* Values.  JavaScript values are drawn from a small set of primitives;    *)
(* NaN is the one primitive that is not strictly equal to itself.          *)
(***************************************************************************)
Undefined == "undefined"
NaN == "NaN"
Keys == {"a", "b"}
Vals == {Undefined, "v1", "v2", NaN}

\* the === operator on primitives
StrictEq(x, y) == x = y /\ x # NaN

\* ---- bounds ----
MaxSteps == 4        \* steps per run of SpecStore
MaxClock == 1        \* clock ticks per run
MaxWatch == 2        \* watchers registered on one key
MaxScriptOps == 53   \* operations a workload of SpecHist performs
MaxBusSteps == 4     \* bus operations per run of SpecBus
MaxSubs == 3         \* subscriptions to one event name
MaxOnce == 2         \* wrappers made by once() per run
MaxRuns == 3         \* a callback's run count is kept up to this number
MaxConnect == 3      \* connect() calls made by the application per run
MaxHandlers == 1     \* handlers registered for one frame type
MaxRegistered == 3   \* handlers registered in all, in the message-dispatch runs
MaxProgSteps == 4    \* tracker operations per run
MaxTime == 4         \* seconds the clock of the tracker runs for
MaxTimers == 2       \* cleanup timeouts pending at once
MaxLifeSteps == 3    \* store operations per run of SpecLife
MaxWatchSteps == 5   \* store operations per run of SpecWatch
MaxSubscriptions == 3  \* watch() calls accepted while a key has fewer watchers

\* ---- program constants ----
maxHistorySize == 50

(***************************************************************************)
(* StateManager                                                            *)
(***************************************************************************)
EmptyMap == [x \in {} |-> Undefined]

\* target[property]: a missing property reads as undefined
Get(st, k) == IF k \in DOMAIN st THEN st[k] ELSE Undefined

MapPut(m, k, v) == [x \in DOMAIN m \cup {k} |-> IF x = k THEN v ELSE m[x]]
MapDel(m, k) == [x \in DOMAIN m \ {k} |-> m[x]]

\* the watcher callbacks of the model; the name says what the body does
Watchers == {"w_ok", "w_throw", "w_set"}
\* the watchers of the subscription runs: w_unwatchOk calls unwatch(key, w_ok)
\* and w_watchOk calls watch(key, w_ok), each for the key it is notified of
WatchKinds == {"w_ok", "w_throw", "w_unwatchOk", "w_watchOk"}
\* w_set re-entrantly calls store.set(WSetKey, WSetVal)
WSetKey == "b"
WSetVal == "v1"

\* watch(key, callback), up to the returned unwatch function
WatchIn(S, k, cb) ==
    LET cur == IF k \in DOMAIN S.listeners THEN S.listeners[k] ELSE <<>>
    IN  [S EXCEPT !.listeners = MapPut(@, k, Append(cur, cb))]

RemoveAt(s, i) == SubSeq(s, 1, i - 1) \o SubSeq(s, i + 1, Len(s))
\* Array.prototype.indexOf: the first index holding x, 0 when there is none
IndexOf(s, x) ==
    IF \E i \in 1..Len(s) : s[i] = x
    THEN CHOOSE i \in 1..Len(s) : s[i] = x /\ \A j \in 1..(i - 1) : s[j] # x
    ELSE 0

UnwatchInAll(ls, k, cb) ==
    IF k \notin DOMAIN ls THEN ls
    ELSE LET cbs == SelectSeq(ls[k], LAMBDA x : x # cb)
         IN  IF Len(cbs) = 0 THEN MapDel(ls, k) ELSE MapPut(ls, k, cbs)

\* unwatch(key, callback)
UnwatchIn(ls, k, cb) ==
    IF k \notin DOMAIN ls THEN ls
    ELSE LET i   == IndexOf(ls[k], cb)
             cbs == IF i > 0 THEN RemoveAt(ls[k], i) ELSE ls[k]
         IN  IF Len(cbs) = 0 THEN MapDel(ls, k) ELSE MapPut(ls, k, cbs)

SetRecord(k, old, new) ==
    [property |-> k, oldValue |-> old, newValue |-> new, timestamp |-> now]
DeleteRecord(k, old) ==
    [property |-> k, oldValue |-> old, newValue |-> Undefined,
     timestamp |-> now, action |-> "delete"]

AddHistoryOffByOne(h, rec) ==
    LET p == Append(h, rec) IN IF Len(p) >= maxHistorySize THEN Tail(p) ELSE p

\* addHistory(record): push, then shift when over capacity
AddHistory(h, rec) ==
    LET p == Append(h, rec) IN IF Len(p) > maxHistorySize THEN Tail(p) ELSE p

\* The store as the synchronous code sees and changes it during one operation:
\*   calls   the watcher invocations made so far, in order
\*   muts    the records handed to addHistory so far, in order
\*   escaped whether an exception has propagated out of a dispatch
\*   views   for each watcher invocation, what the store held as it began
StoreNow == [state |-> state, listeners |-> listeners, history |-> history, heap |-> heap,
             calls |-> <<>>, muts |-> <<>>, escaped |-> FALSE, views |-> <<>>]

\* what a callback invoked with (new, old) for key k finds: the value get(k)
\* returns, and whether the history holds the record of that mutation
ViewOf(S, k, new, old) ==
    [seen   |-> Get(S.state, k),
     logged |-> \E j \in 1..Len(S.history) :
                    /\ S.history[j].property = k
                    /\ S.history[j].newValue = new
                    /\ S.history[j].oldValue = old]

RECURSIVE TrapSet(_, _, _, _)
RECURSIVE RunWatchers(_, _, _, _, _, _, _)

\* the body of one watcher callback; escaped is set when it throws
WatcherBody(S, cb, k, d) ==
    CASE cb = "w_throw" -> [S EXCEPT !.escaped = TRUE]
      [] cb = "w_set"   -> TrapSet(S, WSetKey, WSetVal, d + 1)
      [] cb = "w_unwatchOk" -> [S EXCEPT !.listeners = UnwatchIn(@, k, "w_ok")]
      [] cb = "w_watchOk"   -> WatchIn(S, k, "w_ok")
      [] OTHER          -> S

\* try { callback(newValue, oldValue) } catch (error) { console.error(...) }
InvokeWatcher(S, cb, k, new, old, d) ==
    LET S1 == [S EXCEPT !.calls = Append(@, [cb |-> cb, key |-> k, new |-> new,
                                             old |-> old, depth |-> d]),
                        !.views = Append(@, ViewOf(S, k, new, old))]
        r  == WatcherBody(S1, cb, k, d)
    IN  [r EXCEPT !.escaped = FALSE]

\* [...callbacks].forEach(...): iterate the copy taken when notify began
RunWatchers(S, snap, i, k, new, old, d) ==
    IF i > Len(snap) \/ S.escaped THEN S
    ELSE RunWatchers(InvokeWatcher(S, snap[i], k, new, old, d), snap, i + 1, k, new, old, d)

\* notify(key, newValue, oldValue)
Notify(S, k, new, old, d) ==
    IF k \notin DOMAIN S.listeners THEN S
    ELSE RunWatchers(S, S.listeners[k], 1, k, new, old, d)

Record(S, rec, d) ==
    [S EXCEPT !.history = AddHistory(@, rec),
              !.muts = Append(@, [rec |-> rec, depth |-> d])]

TrapSetRecordsFirst(S, k, v, d) ==
    LET old == Get(S.state, k)
        S1  == Record(S, SetRecord(k, old, v), d)
    IN  IF StrictEq(old, v) THEN S1
        ELSE Notify([S1 EXCEPT !.state = MapPut(@, k, v)], k, v, old, d)

\* the Proxy's set trap
TrapSet(S, k, v, d) ==
    LET old == Get(S.state, k)
    IN  IF StrictEq(old, v) THEN S
        ELSE LET S1 == Record(S, SetRecord(k, old, v), d)
                 S2 == [S1 EXCEPT !.state = MapPut(@, k, v)]
             IN  Notify(S2, k, v, old, d)

TrapDeleteNotifyOld(S, k, d) ==
    LET old == Get(S.state, k)
        S1  == Record(S, DeleteRecord(k, old), d)
        S2  == [S1 EXCEPT !.state = MapDel(@, k)]
    IN  Notify(S2, k, old, Undefined, d)

\* the Proxy's deleteProperty trap
TrapDelete(S, k, d) ==
    LET old == Get(S.state, k)
        S1  == Record(S, DeleteRecord(k, old), d)
        S2  == [S1 EXCEPT !.state = MapDel(@, k)]
    IN  Notify(S2, k, Undefined, old, d)

\* what an operation leaves behind: the store, and the observation of the call
\* (arg is what the call was given besides a key and a value)
StoreDoneWith(S, op, k, v, arg) ==
    /\ state' = S.state
    /\ listeners' = S.listeners
    /\ history' = S.history
    /\ heap' = S.heap
    /\ storeObs' = [op |-> op, key |-> k, val |-> v, old |-> Get(state, k), arg |-> arg,
                    calls |-> S.calls, muts |-> S.muts, escaped |-> S.escaped,
                    views |-> S.views]
    /\ effLog' = effLog \o [i \in 1..Len(S.muts) |-> S.muts[i].rec]
    /\ clearedAt' = CASE op \in {"clearHistory", "destroy"} -> Len(effLog)
                       [] op = "reset" -> Len(effLog) + Len(S.muts)
                       [] OTHER -> clearedAt
    /\ UNCHANGED <<busVars, connVars, progVars>>

StoreDone(S, op, k, v) ==
    /\ StoreDoneWith(S, op, k, v, 0)
    /\ UNCHANGED snapshot

\* set(key, value) with a string key: this.state[key] = value
Set(k, v) ==
    /\ StoreDone(TrapSet(StoreNow, k, v, 0), "set", k, v)
    /\ UNCHANGED now

\* delete store.state[key]: the deleteProperty trap, as reset() and destroy() use it
DeleteKey(k) ==
    /\ StoreDone(TrapDelete(StoreNow, k, 0), "delete", k, Undefined)
    /\ UNCHANGED now

\* the application calls watch(key, callback)
Watch(k, cb) ==
    /\ Len(IF k \in DOMAIN listeners THEN listeners[k] ELSE <<>>) < MaxWatch
    /\ StoreDone(WatchIn(StoreNow, k, cb), "watch", k, cb)
    /\ UNCHANGED now

Watching(k) == IF k \in DOMAIN listeners THEN listeners[k] ELSE <<>>

\* the application calls unwatch(key, callback), or the function watch() returned,
\* for a callback that is watching the key
Unwatch(k, cb) ==
    /\ \E i \in 1..Len(Watching(k)) : Watching(k)[i] = cb
    /\ StoreDone([StoreNow EXCEPT !.listeners = UnwatchIn(@, k, cb)], "unwatch", k, cb)
    /\ UNCHANGED now

\* the same for a callback that is not watching the key
UnwatchAbsent(k, cb) ==
    /\ \A i \in 1..Len(Watching(k)) : Watching(k)[i] # cb
    /\ StoreDone([StoreNow EXCEPT !.listeners = UnwatchIn(@, k, cb)], "unwatch", k, cb)
    /\ UNCHANGED now

\* clearHistory()
ClearHistory ==
    /\ StoreDone([StoreNow EXCEPT !.history = <<>>], "clearHistory", Undefined, Undefined)
    /\ UNCHANGED now

\* time passes between two operations
Tick ==
    /\ now < MaxClock
    /\ now' = now + 1
    /\ UNCHANGED <<state, listeners, history, storeObs, effLog, clearedAt, heap, snapshot>>
    /\ UNCHANGED <<busVars, connVars, progVars>>

NoObs == [op |-> "init", key |-> Undefined, val |-> Undefined, old |-> Undefined,
          arg |-> 0, calls |-> <<>>, muts |-> <<>>, escaped |-> FALSE,
          views |-> <<>>]

\* the objects the application holds when it starts: o1 is {x: "1"} and o2 is
\* {x: "2", y: "2"}
AppObjects == [r \in {"o1", "o2"} |->
                 IF r = "o1" THEN [f \in {"x"} |-> "1"] ELSE [f \in {"x", "y"} |-> "2"]]
\* getState() has not been called
NoSnapshot == [ref |-> "none", obj |-> EmptyMap]

\* new StateManager(initialState)
InitialStates == {EmptyMap, [x \in {"a"} |-> "v1"]}

StoreInit ==
    /\ state \in InitialStates
    /\ listeners = EmptyMap
    /\ history = <<>>
    /\ now = 0
    /\ storeObs = NoObs
    /\ effLog = <<>>
    /\ clearedAt = 0
    /\ steps = 0
    /\ script = <<>>
    /\ heap = AppObjects
    /\ snapshot = NoSnapshot

\* one more step of the application using the store
StoreStep ==
    /\ steps < MaxSteps
    /\ steps' = steps + 1
    /\ UNCHANGED script

AppSet == \E k \in Keys, v \in Vals : StoreStep /\ Set(k, v)
AppDelete == \E k \in Keys : StoreStep /\ DeleteKey(k)
AppWatch == \E k \in Keys, cb \in Watchers : StoreStep /\ Watch(k, cb)
AppUnwatch == \E k \in Keys, cb \in Watchers : StoreStep /\ Unwatch(k, cb)
AppUnwatchAbsent == StoreStep /\ UnwatchAbsent("a", "w_ok")
AppClearHistory == StoreStep /\ ClearHistory
AppTick == StoreStep /\ Tick

StoreNext ==
    \/ AppSet
    \/ AppDelete
    \/ AppWatch
    \/ AppUnwatch
    \/ AppUnwatchAbsent
    \/ AppClearHistory
    \/ AppTick

(***************************************************************************)
(* update, reset, destroy and getState.  A value is a primitive or a        *)
(* reference to an object of the heap; two references are strictly equal    *)
(* when they are the same reference.                                        *)
(***************************************************************************)
JsNull == "null"
LifeVals == {Undefined, "v1", JsNull, "o1"}

\* typeof v === 'object' && v !== null
IsObject(S, v) == v \in DOMAIN S.heap
\* { ...a, ...b } for the own properties a and b of two objects
Spread(a, b) == [f \in DOMAIN a \cup DOMAIN b |-> IF f \in DOMAIN b THEN b[f] ELSE a[f]]
\* the reference of the next object an object literal creates
FreshRefs == <<"m1", "m2", "m3", "m4", "m5", "m6">>
Allocated(S) == Cardinality(DOMAIN S.heap \ DOMAIN AppObjects)
NewRef(S) == FreshRefs[Allocated(S) + 1]

UpdateInReplaces(S, k, u) == TrapSet(S, k, u, 0)

\* update(key, updates), updates being an object
UpdateIn(S, k, u) ==
    LET current == Get(S.state, k)
    IN  IF IsObject(S, current)
        THEN LET r  == NewRef(S)
                 S1 == [S EXCEPT !.heap = MapPut(@, r, Spread(S.heap[current], S.heap[u]))]
             IN  TrapSet(S1, k, r, 0)
        ELSE TrapSet(S, k, u, 0)

\* the application calls update(key, updates)
Update(k, u) ==
    /\ Allocated(StoreNow) < Len(FreshRefs)
    /\ StoreDone(UpdateIn(StoreNow, k, u), "update", k, u)
    /\ UNCHANGED now

\* Object.keys(obj): the keys in the order they were added.  The model keeps
\* no insertion order, so every order of the keys is one Object.keys may give.
KeyOrders(st) ==
    {o \in [1..Cardinality(DOMAIN st) -> DOMAIN st] :
        \A i, j \in DOMAIN o : i # j => o[i] # o[j]}

RECURSIVE DeleteAll(_, _, _)
\* Object.keys(this.state).forEach(key => { delete this.state[key]; })
DeleteAll(S, keys, i) ==
    IF i > Len(keys) THEN S ELSE DeleteAll(TrapDelete(S, keys[i], 0), keys, i + 1)

RECURSIVE AssignAllUnchecked(_, _, _)
AssignAllUnchecked(S, source, i) ==
    IF i > Len(source) THEN S
    ELSE LET k  == source[i].key
             v  == source[i].val
             S1 == Record(S, SetRecord(k, Get(S.state, k), v), 0)
         IN  AssignAllUnchecked(
                 Notify([S1 EXCEPT !.state = MapPut(@, k, v)], k, v, Get(S.state, k), 0),
                 source, i + 1)

RECURSIVE AssignAll(_, _, _)
\* Object.assign(this.state, source): every property of source, in its order,
\* is assigned through the set trap
AssignAll(S, source, i) ==
    IF i > Len(source) THEN S
    ELSE AssignAll(TrapSet(S, source[i].key, source[i].val, 0), source, i + 1)

ResetInKeepsHistory(S, keys, newState) == AssignAll(DeleteAll(S, keys, 1), newState, 1)

\* reset(newState)
ResetIn(S, keys, newState) ==
    [AssignAll(DeleteAll(S, keys, 1), newState, 1) EXCEPT !.history = <<>>]

\* destroy(): clearListeners(); clearHistory(); then every key is deleted
DestroyIn(S, keys) ==
    DeleteAll([S EXCEPT !.listeners = EmptyMap, !.history = <<>>], keys, 1)

\* the objects handed to reset(), as the sequence of their properties
Prop(k, v) == [key |-> k, val |-> v]
ResetArgs == {<<>>, <<Prop("a", "v2")>>, <<Prop("a", Undefined)>>, <<Prop("b", "v1")>>,
              <<Prop("a", "v1"), Prop("b", "v2")>>}

\* the application calls reset(newState)
Reset(keys, newState) ==
    /\ StoreDoneWith(ResetIn(StoreNow, keys, newState), "reset", Undefined, Undefined,
                     [keys |-> keys, newState |-> newState])
    /\ UNCHANGED <<now, snapshot>>

\* the objects the application hands to set(): own properties in their order
SetArgs == {<<>>, <<Prop("a", "v1"), Prop("b", JsNull)>>,
            <<Prop("b", "v1"), Prop("a", Undefined)>>}

\* the application calls set(object): typeof key === 'object', so
\* Object.assign(this.state, key) assigns every own property through the proxy
SetAll(source) ==
    /\ StoreDoneWith(AssignAll(StoreNow, source, 1), "setAll", Undefined, Undefined, source)
    /\ UNCHANGED <<now, snapshot>>

\* the application calls destroy()
Destroy(keys) ==
    /\ StoreDone(DestroyIn(StoreNow, keys), "destroy", Undefined, Undefined)
    /\ UNCHANGED now

GetStateInLive(S) == [ref |-> "proxy", obj |-> EmptyMap]

\* getState(): { ...this.state }, a new object with the properties of the state
GetStateIn(S) == [ref |-> "copy", obj |-> S.state]

\* the properties of the object the last getState() call returned, as its
\* caller reads them
SnapshotView == IF snapshot.ref = "proxy" THEN state ELSE snapshot.obj

\* the application calls getState() of the store
GetStoreState ==
    /\ StoreDoneWith(StoreNow, "getState", Undefined, Undefined, 0)
    /\ snapshot' = GetStateIn(StoreNow)
    /\ UNCHANGED now

\* the caller assigns a property of the object getState() returned: a plain
\* assignment, which runs the set trap only if the object is the proxy
SnapshotSet(k, v) ==
    /\ snapshot.ref # "none"
    /\ IF snapshot.ref = "proxy"
       THEN /\ StoreDoneWith(TrapSet(StoreNow, k, v, 0), "snapshotSet", k, v, 0)
            /\ UNCHANGED snapshot
       ELSE /\ StoreDoneWith(StoreNow, "snapshotSet", k, v, 0)
            /\ snapshot' = [snapshot EXCEPT !.obj = MapPut(@, k, v)]
    /\ UNCHANGED now

\* the caller deletes a property of the object getState() returned
SnapshotDelete(k) ==
    /\ snapshot.ref # "none"
    /\ IF snapshot.ref = "proxy"
       THEN /\ StoreDoneWith(TrapDelete(StoreNow, k, 0), "snapshotDelete", k, Undefined, 0)
            /\ UNCHANGED snapshot
       ELSE /\ StoreDoneWith(StoreNow, "snapshotDelete", k, Undefined, 0)
            /\ snapshot' = [snapshot EXCEPT !.obj = MapDel(@, k)]
    /\ UNCHANGED now

\* new StateManager(initialState)
LifeInitialStates == {[x \in {"a"} |-> "v1"],
                      [x \in {"a", "b"} |-> IF x = "a" THEN "o1" ELSE "v2"]}

LifeInit ==
    /\ state \in LifeInitialStates
    /\ listeners = EmptyMap
    /\ history = <<>>
    /\ now = 0
    /\ storeObs = NoObs
    /\ effLog = <<>>
    /\ clearedAt = 0
    /\ steps = 0
    /\ script = <<>>
    /\ heap = AppObjects
    /\ snapshot = NoSnapshot

\* one more step of the application using the store
LifeStep ==
    /\ steps < MaxLifeSteps
    /\ steps' = steps + 1
    /\ UNCHANGED script

LifeSet == \E k \in Keys, v \in LifeVals : LifeStep /\ Set(k, v)
LifeWatch == \E k \in Keys, cb \in Watchers : LifeStep /\ Watch(k, cb)
LifeUpdate == \E k \in Keys, u \in DOMAIN AppObjects : LifeStep /\ Update(k, u)
LifeReset ==
    \E keys \in KeyOrders(state), newState \in ResetArgs : LifeStep /\ Reset(keys, newState)
LifeDestroy == \E keys \in KeyOrders(state) : LifeStep /\ Destroy(keys)
LifeGetState == LifeStep /\ GetStoreState
LifeSnapshotSet == \E k \in Keys : LifeStep /\ SnapshotSet(k, "v2")
LifeSnapshotDelete == \E k \in Keys : LifeStep /\ SnapshotDelete(k)
LifeSetAll == \E source \in SetArgs : LifeStep /\ SetAll(source)

LifeNext ==
    \/ LifeSet
    \/ LifeWatch
    \/ LifeUpdate
    \/ LifeReset
    \/ LifeDestroy
    \/ LifeGetState
    \/ LifeSnapshotSet
    \/ LifeSnapshotDelete
    \/ LifeSetAll

(***************************************************************************)
(* Subscriptions: watch, the function watch returns, and the dispatch of a *)
(* mutation to watchers that watch and unwatch while it runs.               *)
(***************************************************************************)
\* the application calls watch(key, callback)
Subscribe(k, cb) ==
    /\ Len(Watching(k)) < MaxSubscriptions
    /\ StoreDone(WatchIn(StoreNow, k, cb), "watch", k, cb)
    /\ UNCHANGED now

\* the application calls the function that the watch() call which made the
\* i-th subscription of the key returned: () => this.unwatch(key, callback)
Unsubscribe(k, i) ==
    /\ i \in 1..Len(Watching(k))
    /\ StoreDoneWith([StoreNow EXCEPT !.listeners = UnwatchIn(@, k, Watching(k)[i])],
                     "unsubscribe", k, Watching(k)[i], i)
    /\ UNCHANGED <<now, snapshot>>

\* the application calls that function twice in a row
UnsubscribeTwice(k, i) ==
    /\ i \in 1..Len(Watching(k))
    /\ LET cb == Watching(k)[i]
           l1 == UnwatchIn(listeners, k, cb)
           l2 == UnwatchIn(l1, k, cb)
       IN  StoreDoneWith([StoreNow EXCEPT !.listeners = l2], "unsubscribeTwice", k, cb,
                         [i |-> i, once |-> IF k \in DOMAIN l1 THEN l1[k] ELSE <<>>])
    /\ UNCHANGED <<now, snapshot>>

\* one more step of the application using the store
WatchStep ==
    /\ steps < MaxWatchSteps
    /\ steps' = steps + 1
    /\ UNCHANGED script

WatchSubscribe == \E cb \in WatchKinds : WatchStep /\ Subscribe("a", cb)
WatchUnsubscribe == \E i \in 1..Len(Watching("a")) : WatchStep /\ Unsubscribe("a", i)
WatchSet == \E v \in {"v1", "v2"} : WatchStep /\ Set("a", v)
WatchDelete == WatchStep /\ DeleteKey("a")

WatchNext ==
    \/ WatchSubscribe
    \/ WatchUnsubscribe
    \/ WatchSet
    \/ WatchDelete

(***************************************************************************)
(* The history-capacity workloads: a short cycle of mutations repeated     *)
(* until well past the capacity of the history.                            *)
(***************************************************************************)
ScriptOps ==
    {[op |-> "set", key |-> "a", val |-> v] : v \in {"v1", "v2", NaN}}
    \cup {[op |-> "set", key |-> "b", val |-> "v2"],
          [op |-> "delete", key |-> "a", val |-> Undefined]}
Scripts == {<<o>> : o \in ScriptOps} \cup {<<o, p>> : o \in ScriptOps, p \in ScriptOps}

ScriptOp == script[(steps % Len(script)) + 1]

HistInit ==
    /\ state = EmptyMap
    /\ listeners \in {EmptyMap, [x \in {"a"} |-> <<"w_set">>]}
    /\ history = <<>>
    /\ now = 0
    /\ storeObs = NoObs
    /\ effLog = <<>>
    /\ clearedAt = 0
    /\ steps = 0
    /\ script \in Scripts
    /\ heap = AppObjects
    /\ snapshot = NoSnapshot

\* the next operation of the workload is performed
ScriptStep ==
    /\ steps < MaxScriptOps
    /\ steps' = steps + 1
    /\ UNCHANGED script

ScriptSet == ScriptStep /\ ScriptOp.op = "set" /\ Set(ScriptOp.key, ScriptOp.val)
ScriptDelete == ScriptStep /\ ScriptOp.op = "delete" /\ DeleteKey(ScriptOp.key)
\* the workload clears the history at most once, at any point of the run
ScriptClear == clearedAt = 0 /\ ClearHistory /\ UNCHANGED <<steps, script>>

HistNext ==
    \/ ScriptSet
    \/ ScriptDelete
    \/ ScriptClear

(***************************************************************************)
(* EventBus                                                                *)
(***************************************************************************)
EventNames == {"e", "f"}
\* the subscriber callbacks of the model; the name says what the body does:
\*   cb_ok      returns
\*   cb_throws  throws
\*   cb_reemit  calls bus.emit(name) unless it is itself running inside that emit
\*   cb_offOk   calls bus.off(name, cb_ok)
\*   cb_onOk    calls bus.on(name, cb_ok)
BusCallbacks == {"cb_ok", "cb_throws", "cb_reemit", "cb_offOk", "cb_onOk"}

\* A subscribed function: a callback itself (w = 0), or the w-th wrapper that
\* once() made around a callback.  Functions are compared by identity.
Direct(cb) == [cb |-> cb, w |-> 0]
Wrapper(cb, w) == [cb |-> cb, w |-> w]

\* The bus as the synchronous code sees and changes it during one operation
BusNow == [events |-> events, onceRuns |-> onceRuns, calls |-> <<>>, escaped |-> FALSE]

\* on(eventName, callback), up to the returned unsubscribe function
OnIn(B, n, e) ==
    LET cur == IF n \in DOMAIN B.events THEN B.events[n] ELSE <<>>
    IN  [B EXCEPT !.events = MapPut(@, n, Append(cur, e))]

OffInAll(B, n, e) ==
    IF n \notin DOMAIN B.events THEN B
    ELSE LET cbs == SelectSeq(B.events[n], LAMBDA x : x # e)
         IN  IF Len(cbs) = 0 THEN [B EXCEPT !.events = MapDel(@, n)]
             ELSE [B EXCEPT !.events = MapPut(@, n, cbs)]

\* off(eventName, callback) with a callback given
OffIn(B, n, e) ==
    IF n \notin DOMAIN B.events THEN B
    ELSE LET i   == IndexOf(B.events[n], e)
             cbs == IF i > 0 THEN RemoveAt(B.events[n], i) ELSE B.events[n]
         IN  IF Len(cbs) = 0 THEN [B EXCEPT !.events = MapDel(@, n)]
             ELSE [B EXCEPT !.events = MapPut(@, n, cbs)]

\* off(eventName) without a callback
OffAllIn(B, n) ==
    IF n \notin DOMAIN B.events THEN B ELSE [B EXCEPT !.events = MapDel(@, n)]

RECURSIVE EmitIn(_, _, _)
RECURSIVE RunSubscribers(_, _, _, _, _)

\* the body of one callback; escaped is set when it throws
CallbackBody(B, cb, n, d) ==
    CASE cb = "cb_throws" -> [B EXCEPT !.escaped = TRUE]
      [] cb = "cb_reemit" -> IF d = 0 THEN EmitIn(B, n, d + 1) ELSE B
      [] cb = "cb_offOk"  -> OffIn(B, n, Direct("cb_ok"))
      [] cb = "cb_onOk"   -> OnIn(B, n, Direct("cb_ok"))
      [] OTHER            -> B

CountRun(B, w) ==
    [B EXCEPT !.onceRuns[w] = IF @ < MaxRuns THEN @ + 1 ELSE @]

\* the wrapper of once(): callback(...args); this.off(eventName, wrapper)
WrapperBody(B, e, n, d) ==
    LET r == CallbackBody(CountRun(B, e.w), e.cb, n, d)
    IN  IF r.escaped THEN r ELSE OffIn(r, n, e)

SubscriberBody(B, e, n, d) ==
    IF e.w = 0 THEN CallbackBody(B, e.cb, n, d) ELSE WrapperBody(B, e, n, d)

LogCall(B, e, n, d) ==
    [B EXCEPT !.calls = Append(@, [fn |-> e, name |-> n, depth |-> d])]

InvokeSubscriberNoCatch(B, e, n, d) == SubscriberBody(LogCall(B, e, n, d), e, n, d)

\* try { callback(...args) } catch (error) { console.error(...) }
InvokeSubscriber(B, e, n, d) ==
    [SubscriberBody(LogCall(B, e, n, d), e, n, d) EXCEPT !.escaped = FALSE]

\* [...callbacks].forEach(...): iterate the copy taken when emit began
RunSubscribers(B, snap, i, n, d) ==
    IF i > Len(snap) \/ B.escaped THEN B
    ELSE RunSubscribers(InvokeSubscriber(B, snap[i], n, d), snap, i + 1, n, d)

RECURSIVE RunLive(_, _, _, _, _)
\* callbacks.forEach(...) on the subscribed array itself: index i is visited
\* while it is below the length at the start and still present in the array
RunLive(B, len, i, n, d) ==
    IF i > len \/ B.escaped \/ n \notin DOMAIN B.events THEN B
    ELSE IF i > Len(B.events[n]) THEN B
    ELSE RunLive(InvokeSubscriber(B, B.events[n][i], n, d), len, i + 1, n, d)

EmitInLive(B, n, d) ==
    IF n \notin DOMAIN B.events THEN B
    ELSE RunLive(B, Len(B.events[n]), 1, n, d)

\* emit(eventName, ...args)
EmitIn(B, n, d) ==
    IF n \notin DOMAIN B.events THEN B
    ELSE RunSubscribers(B, B.events[n], 1, n, d)

Subscribed(n) == IF n \in DOMAIN events THEN events[n] ELSE <<>>

\* listenerCount(eventName)
ListenerCount(n) == IF n \notin DOMAIN events THEN 0 ELSE Len(events[n])
\* eventNames(), as a set
BusEventNames == DOMAIN events

\* what an operation leaves behind: the bus, and the observation of the call
\* (arg is what the call is observed by besides a name and a function)
BusDoneWith(B, op, n, e, arg) ==
    /\ events' = B.events
    /\ onceRuns' = B.onceRuns
    /\ busObs' = [op |-> op, name |-> n, fn |-> e, snap |-> Subscribed(n),
                  calls |-> B.calls, escaped |-> B.escaped, arg |-> arg]
    /\ busSteps < MaxBusSteps
    /\ busSteps' = busSteps + 1
    /\ UNCHANGED <<storeVars, connVars, progVars>>

BusDone(B, op, n, e) == BusDoneWith(B, op, n, e, 0)

\* on(eventName, callback)
On(n, cb) ==
    /\ Len(Subscribed(n)) < MaxSubs
    /\ BusDone(OnIn(BusNow, n, Direct(cb)), "on", n, Direct(cb))

\* once(eventName, callback): a new wrapper, subscribed with on()
Once(n, cb) ==
    /\ Len(Subscribed(n)) < MaxSubs
    /\ Len(onceRuns) < MaxOnce
    /\ LET w == Wrapper(cb, Len(onceRuns) + 1)
       IN  BusDone(OnIn([BusNow EXCEPT !.onceRuns = Append(@, 0)], n, w), "once", n, w)

\* every function that has ever been handed to on(): a callback, or a wrapper made
AllFunctions ==
    {Direct(cb) : cb \in BusCallbacks}
    \cup {Wrapper(cb, w) : cb \in BusCallbacks, w \in 1..Len(onceRuns)}

\* off(eventName, callback), also as the unsubscribe function on() and once() return
Off(n, e) ==
    /\ \E i \in 1..Len(Subscribed(n)) : Subscribed(n)[i] = e
    /\ BusDone(OffIn(BusNow, n, e), "off", n, e)

\* off(eventName, callback) for a function that is not subscribed to the name
OffAbsent(n, e) ==
    /\ \A i \in 1..Len(Subscribed(n)) : Subscribed(n)[i] # e
    /\ BusDone(OffIn(BusNow, n, e), "off", n, e)

\* off(eventName)
OffAll(n) == BusDone(OffAllIn(BusNow, n), "offAll", n, Direct("none"))

\* emit(eventName)
Emit(n) == BusDone(EmitIn(BusNow, n, 0), "emit", n, Direct("none"))

NoBusObs == [op |-> "init", name |-> "none", fn |-> Direct("none"), snap |-> <<>>,
             calls |-> <<>>, escaped |-> FALSE, arg |-> 0]

\* new EventBus()
BusInit ==
    /\ events = EmptyMap
    /\ onceRuns = <<>>
    /\ busObs = NoBusObs
    /\ busSteps = 0

\* the application calls, twice in a row, the function that the on() call
\* which made the i-th subscription of the name returned:
\* () => this.off(eventName, callback)
OffTwice(n, i) ==
    /\ i \in 1..Len(Subscribed(n))
    /\ LET e  == Subscribed(n)[i]
           B1 == OffIn(BusNow, n, e)
           B2 == OffIn(B1, n, e)
       IN  BusDoneWith(B2, "unsubscribeTwice", n, e,
                       [i |-> i,
                        once |-> IF n \in DOMAIN B1.events THEN B1.events[n] ELSE <<>>])

BusNext ==
    \/ \E n \in EventNames, cb \in BusCallbacks : On(n, cb)
    \/ \E n \in EventNames, cb \in BusCallbacks : Once(n, cb)
    \/ \E n \in EventNames, e \in AllFunctions : Off(n, e)
    \/ \E n \in EventNames : OffAbsent(n, Direct("cb_ok"))
    \/ \E n \in EventNames : OffAll(n)
    \/ \E n \in EventNames : Emit(n)

(***************************************************************************)
(* Unsubscribe functions: a store and a bus, callbacks subscribed more than *)
(* once, and the functions watch() and on() returned called twice           *)
(***************************************************************************)
UnsubWatchers == {"w_ok", "w_throw"}
UnsubCallbacks == {"cb_ok", "cb_throws"}

UnsubWatch == \E cb \in UnsubWatchers : WatchStep /\ Subscribe("a", cb)
UnsubWatchTwice == \E i \in 1..Len(Watching("a")) : WatchStep /\ UnsubscribeTwice("a", i)
UnsubOn == \E cb \in UnsubCallbacks : On("f", cb)
UnsubOffTwice == \E i \in 1..Len(Subscribed("f")) : OffTwice("f", i)

UnsubNext ==
    \/ UnsubWatch
    \/ UnsubWatchTwice
    \/ UnsubOn
    \/ UnsubOffTwice

(***************************************************************************)
(* WebSocketManager.  The transport is the browser's WebSocket: a socket   *)
(* is CONNECTING when made, its open event takes it to OPEN, close() takes *)
(* it to CLOSING, and it becomes CLOSED in the task that fires its close   *)
(* event, preceded in that task by its error event when the connection     *)
(* failed.  A socket that is CLOSED fires nothing more; its slot is free   *)
(* again once the manager no longer refers to it.                          *)
(***************************************************************************)
Null == 0
Slots == 1..(MaxConnect + 1)
FrameTypes == {"progress"}
Handlers == {"h_ok"}
\* the handlers of the message-dispatch runs; the name says what the body does:
\*   h_ok       returns
\*   h_throw    throws
\*   h_offSelf  calls manager.off(type, h_offSelf)
\*   h_offOk    calls manager.off(type, h_ok)
\*   h_onOk     calls manager.on(type, h_ok)
MsgHandlers == {"h_ok", "h_throw", "h_offSelf", "h_offOk", "h_onOk"}
MsgTypes == {"progress", "segment"}
\* what a message event carries: text that is not JSON, the JSON text null, or
\* the JSON text of an object with the given type
Payloads == {"garbage", "null"} \cup MsgTypes
Frames == {"data"}
Ping == "ping"

\* The manager and its sockets as the synchronous code sees and changes them:
\*   sent     the frames handed to a socket's send(), with the socket
\*   threw    whether an exception has propagated out of the code run
\*   emitted  the websocket:<event> events dispatched on window
\*   emitAt   for each of them, how many handler invocations preceded it
ConnNow == [sockets |-> sockets, socket |-> socket, isConnected |-> isConnected,
            heartbeatTimer |-> heartbeatTimer, intervals |-> intervals,
            reconnectTimers |-> reconnectTimers, messageHandlers |-> messageHandlers,
            sent |-> <<>>, threw |-> FALSE, emitted |-> <<>>, emitAt |-> <<>>,
            calls |-> <<>>]

\* getState()
GetStateOf(C) == IF C.socket = Null THEN "CLOSED" ELSE C.sockets[C.socket]
GetState == GetStateOf(ConnNow)

\* emit(event, data): window.dispatchEvent(new CustomEvent("websocket:" + event))
EmitEvent(C, ev) ==
    [C EXCEPT !.emitted = Append(@, ev), !.emitAt = Append(@, Len(C.calls))]

\* a socket nothing refers to any more and that will fire nothing more
Release(C) ==
    [C EXCEPT !.sockets = [s \in Slots |->
        IF C.sockets[s] = "CLOSED" /\ s # C.socket THEN "FREE" ELSE C.sockets[s]]]

\* stopHeartbeat()
StopHeartbeat(C) ==
    IF C.heartbeatTimer # Null
    THEN [C EXCEPT !.intervals = @ \ {C.heartbeatTimer}, !.heartbeatTimer = Null]
    ELSE C

StartHeartbeatKeepsPrevious(C) ==
    LET id == CHOOSE i \in 1..(Cardinality(C.intervals) + 1) : i \notin C.intervals
    IN  [C EXCEPT !.intervals = @ \cup {id}, !.heartbeatTimer = id]

\* startHeartbeat()
StartHeartbeat(C) ==
    LET C1 == StopHeartbeat(C)
        id == CHOOSE i \in 1..(Cardinality(C1.intervals) + 1) : i \notin C1.intervals
    IN  [C1 EXCEPT !.intervals = @ \cup {id}, !.heartbeatTimer = id]

\* send(data): this.isConnected && this.socket.readyState === WebSocket.OPEN
\* reads readyState of null, a TypeError, when isConnected holds with no socket
SendIn(C, frame) ==
    IF ~C.isConnected THEN C
    ELSE IF C.socket = Null THEN [C EXCEPT !.threw = TRUE]
    ELSE IF C.sockets[C.socket] = "OPEN"
         THEN [C EXCEPT !.sent = Append(@, [sock |-> C.socket, frame |-> frame])]
         ELSE C

\* connect(): this.socket = new WebSocket(wsUrl), and its four callbacks
ConnectIn(C) ==
    LET C1 == Release([C EXCEPT !.socket = Null])
        s  == CHOOSE x \in Slots :
                 /\ C1.sockets[x] = "FREE"
                 /\ \A y \in Slots : C1.sockets[y] = "FREE" => x <= y
    IN  [C1 EXCEPT !.sockets[s] = "CONNECTING", !.socket = s]

OnOpenNoHeartbeat(C) == EmitEvent([C EXCEPT !.isConnected = TRUE], "open")

\* socket.onopen
OnOpen(C) ==
    EmitEvent(StartHeartbeat([C EXCEPT !.isConnected = TRUE]), "open")

OnErrorSilent(C) == [C EXCEPT !.isConnected = FALSE]

\* socket.onerror
OnError(C) ==
    EmitEvent([C EXCEPT !.isConnected = FALSE], "error")

OnCloseNoReconnect(C) ==
    EmitEvent(StopHeartbeat([C EXCEPT !.isConnected = FALSE]), "close")

\* socket.onclose: the reconnect is scheduled with setTimeout
OnClose(C) ==
    LET C1 == EmitEvent(StopHeartbeat([C EXCEPT !.isConnected = FALSE]), "close")
    IN  [C1 EXCEPT !.reconnectTimers = @ + 1]

\* socket.close() of the browser
SocketClose(C, s) ==
    IF C.sockets[s] \in {"CONNECTING", "OPEN"} THEN [C EXCEPT !.sockets[s] = "CLOSING"]
    ELSE C

CloseInKeepsHandlers(C) ==
    LET C1 == StopHeartbeat(C)
        C2 == IF C1.socket # Null
              THEN Release([SocketClose(C1, C1.socket) EXCEPT !.socket = Null])
              ELSE C1
    IN  [C2 EXCEPT !.isConnected = FALSE]

\* close()
CloseIn(C) ==
    LET C1 == StopHeartbeat(C)
        C2 == IF C1.socket # Null
              THEN Release([SocketClose(C1, C1.socket) EXCEPT !.socket = Null])
              ELSE C1
    IN  [C2 EXCEPT !.isConnected = FALSE, !.messageHandlers = EmptyMap]

\* on(type, handler)
ConnOnIn(C, t, h) ==
    LET cur == IF t \in DOMAIN C.messageHandlers THEN C.messageHandlers[t] ELSE <<>>
    IN  [C EXCEPT !.messageHandlers = MapPut(@, t, Append(cur, h))]

\* off(type, handler): the array stays in the map when it becomes empty
ConnOffIn(C, t, h) ==
    IF t \notin DOMAIN C.messageHandlers THEN C
    ELSE LET i == IndexOf(C.messageHandlers[t], h)
         IN  IF i > 0 THEN [C EXCEPT !.messageHandlers[t] = RemoveAt(@, i)] ELSE C

\* the body of one handler; threw is set when it throws
HandlerBody(C, t, h) ==
    CASE h = "h_throw"   -> [C EXCEPT !.threw = TRUE]
      [] h = "h_offSelf" -> ConnOffIn(C, t, "h_offSelf")
      [] h = "h_offOk"   -> ConnOffIn(C, t, "h_ok")
      [] h = "h_onOk"    -> ConnOnIn(C, t, "h_ok")
      [] OTHER           -> C

LogHandlerCall(C, t, h) == [C EXCEPT !.calls = Append(@, [h |-> h, frame |-> t])]

InvokeHandlerNoCatch(C, t, h) == HandlerBody(LogHandlerCall(C, t, h), t, h)

\* try { handler(data) } catch (error) { console.error(...) }
InvokeHandler(C, t, h) ==
    [HandlerBody(LogHandlerCall(C, t, h), t, h) EXCEPT !.threw = FALSE]

RECURSIVE RunHandlers(_, _, _, _)
\* handlers.forEach(...) on the registered array itself: index i is visited while
\* it is below the length the array had at the start and still present in it
RunHandlers(C, t, i, len) ==
    IF i > len \/ C.threw THEN C
    ELSE IF i > Len(C.messageHandlers[t]) THEN C
    ELSE RunHandlers(InvokeHandler(C, t, C.messageHandlers[t][i]), t, i + 1, len)

\* handleMessage(data) for an object data; its type names the frame
HandleMessageOnlyHandled(C, t) ==
    IF t \in DOMAIN C.messageHandlers
    THEN LET C1 == RunHandlers(C, t, 1, Len(C.messageHandlers[t]))
         IN  IF C1.threw THEN C1 ELSE EmitEvent(C1, "message")
    ELSE C

HandleMessage(C, t) ==
    LET C1 == IF t \in DOMAIN C.messageHandlers
              THEN RunHandlers(C, t, 1, Len(C.messageHandlers[t]))
              ELSE C
    IN  IF C1.threw THEN C1 ELSE EmitEvent(C1, "message")

OnMessageNoCatch(C, payload) ==
    IF payload \in {"garbage", "null"} THEN [C EXCEPT !.threw = TRUE]
    ELSE HandleMessage(C, payload)

\* socket.onmessage: JSON.parse throws on text that is not JSON, and
\* const { type } = data throws on null; both inside the try
OnMessage(C, payload) ==
    IF payload = "garbage" THEN C
    ELSE IF payload = "null" THEN C
    ELSE [HandleMessage(C, payload) EXCEPT !.threw = FALSE]

ConnDone(C, op, arg) ==
    /\ sockets' = C.sockets
    /\ socket' = C.socket
    /\ isConnected' = C.isConnected
    /\ heartbeatTimer' = C.heartbeatTimer
    /\ intervals' = C.intervals
    /\ reconnectTimers' = C.reconnectTimers
    /\ messageHandlers' = C.messageHandlers
    /\ connObs' = [op |-> op, arg |-> arg, pre |-> GetState, sent |-> C.sent,
                   threw |-> C.threw, emitted |-> C.emitted, emitAt |-> C.emitAt,
                   calls |-> C.calls,
                   had |-> messageHandlers]
    /\ closeSeen' = (closeSeen \/ (/\ op = "close"
                                    /\ GetState = "OPEN"
                                    /\ heartbeatTimer # Null
                                    /\ messageHandlers # EmptyMap))
    /\ UNCHANGED <<storeVars, busVars, progVars>>

\* the application calls connect()
Connect ==
    /\ nConnects < MaxConnect
    /\ nConnects' = nConnects + 1
    /\ ConnDone(ConnectIn(ConnNow), "connect", Null)

\* a reconnect timeout fires: console.log(...); this.connect()
ReconnectTimerFires ==
    /\ reconnectTimers > 0
    /\ ConnDone(ConnectIn([ConnNow EXCEPT !.reconnectTimers = @ - 1]), "reconnect", Null)
    /\ UNCHANGED nConnects

\* the open event of socket s
TransportOpen(s) ==
    /\ sockets[s] = "CONNECTING"
    /\ ConnDone(OnOpen([ConnNow EXCEPT !.sockets[s] = "OPEN"]), "open", s)
    /\ UNCHANGED nConnects

\* socket s closes cleanly: its close event
TransportClose(s) ==
    /\ sockets[s] \in {"OPEN", "CLOSING"}
    /\ ConnDone(Release(OnClose([ConnNow EXCEPT !.sockets[s] = "CLOSED"])), "transportClose", s)
    /\ UNCHANGED nConnects

\* the connection of socket s fails: its error event, then its close event
TransportFail(s) ==
    /\ sockets[s] \in {"CONNECTING", "OPEN", "CLOSING"}
    /\ ConnDone(Release(OnClose(OnError([ConnNow EXCEPT !.sockets[s] = "CLOSED"]))),
                "transportError", s)
    /\ UNCHANGED nConnects

\* the application calls close()
Close ==
    /\ ConnDone(CloseIn(ConnNow), "close", Null)
    /\ UNCHANGED nConnects

\* the application calls send(data)
Send(frame) ==
    /\ ConnDone(SendIn(ConnNow, frame), "send", frame)
    /\ UNCHANGED nConnects

\* the heartbeat interval fires: if (this.isConnected) this.send({type: 'ping', ...})
HeartbeatTick(id) ==
    /\ id \in intervals
    /\ ConnDone(IF isConnected THEN SendIn(ConnNow, Ping) ELSE ConnNow, "heartbeat", id)
    /\ UNCHANGED nConnects

\* the application calls on(type, handler)
ConnOn(t, h) ==
    /\ Len(IF t \in DOMAIN messageHandlers THEN messageHandlers[t] ELSE <<>>) < MaxHandlers
    /\ ConnDone(ConnOnIn(ConnNow, t, h), "on", Null)
    /\ UNCHANGED nConnects

NoConnObs == [op |-> "init", arg |-> Null, pre |-> "CLOSED", sent |-> <<>>,
              threw |-> FALSE, emitted |-> <<>>, emitAt |-> <<>>, calls |-> <<>>,
              had |-> EmptyMap]

\* new WebSocketManager(clientId, config)
ConnInit ==
    /\ sockets = [s \in Slots |-> "FREE"]
    /\ socket = Null
    /\ isConnected = FALSE
    /\ heartbeatTimer = Null
    /\ intervals = {}
    /\ reconnectTimers = 0
    /\ messageHandlers = EmptyMap
    /\ connObs = NoConnObs
    /\ nConnects = 0
    /\ closeSeen = FALSE

ConnNext ==
    \/ Connect
    \/ ReconnectTimerFires
    \/ \E s \in Slots : TransportOpen(s)
    \/ \E s \in Slots : TransportClose(s)
    \/ \E s \in Slots : TransportFail(s)
    \/ Close
    \/ \E f \in Frames : Send(f)
    \/ \E id \in intervals : HeartbeatTick(id)
    \/ \E t \in FrameTypes, h \in Handlers : ConnOn(t, h)

(***************************************************************************)
(* Inbound frames: one connection, handlers of every kind, message events   *)
(***************************************************************************)
RECURSIVE SumLen(_, _)
SumLen(m, ks) ==
    IF ks = {} THEN 0
    ELSE LET k == CHOOSE x \in ks : TRUE IN Len(m[k]) + SumLen(m, ks \ {k})
\* the number of handlers in a registry
RegisteredIn(m) == SumLen(m, DOMAIN m)
Registered == RegisteredIn(messageHandlers)

\* the application connects, once
MsgConnect == nConnects = 0 /\ Connect

\* the application calls on(type, handler)
MsgOn(t, h) ==
    /\ Registered < MaxRegistered
    /\ ConnDone(ConnOnIn(ConnNow, t, h), "on", Null)
    /\ UNCHANGED nConnects

\* the application calls off(type, handler) for a registered handler
ConnOff(t, h) ==
    /\ t \in DOMAIN messageHandlers
    /\ IndexOf(messageHandlers[t], h) > 0
    /\ ConnDone(ConnOffIn(ConnNow, t, h), "off", Null)
    /\ UNCHANGED nConnects

\* off(type, handler) for a handler that is not registered for the type
ConnOffAbsent(t, h) ==
    /\ IF t \in DOMAIN messageHandlers THEN IndexOf(messageHandlers[t], h) = 0 ELSE TRUE
    /\ ConnDone(ConnOffIn(ConnNow, t, h), "off", Null)
    /\ UNCHANGED nConnects

\* a message event of socket s (the registry stays within the bound of the run
\* when a handler registers another during the dispatch)
TransportMessage(s, payload) ==
    /\ sockets[s] = "OPEN"
    /\ RegisteredIn(OnMessage(ConnNow, payload).messageHandlers) <= MaxRegistered
    /\ ConnDone(OnMessage(ConnNow, payload), "message", payload)
    /\ UNCHANGED nConnects

MsgNext ==
    \/ MsgConnect
    \/ \E s \in Slots : TransportOpen(s)
    \/ \E t \in MsgTypes, h \in MsgHandlers : MsgOn(t, h)
    \/ \E t \in MsgTypes, h \in MsgHandlers : ConnOff(t, h)
    \/ \E t \in MsgTypes : ConnOffAbsent(t, "h_ok")
    \/ \E s \in Slots, payload \in Payloads : TransportMessage(s, payload)
    \/ Close

(***************************************************************************)
(* LoadingStateManager (ProgressTracker).  Numbers are JavaScript numbers:  *)
(* a finite number, NaN, or (for the estimate) null.  The clock advances in *)
(* seconds; a timeout that is due runs before the clock advances again, and *)
(* timeouts due together run in the order they were set.                    *)
(***************************************************************************)
Num(n) == [k |-> "num", n |-> n]
NaNNum == [k |-> "nan", n |-> 0]
NullNum == [k |-> "null", n |-> 0]

\* Math.max and Math.min of two numbers: NaN when either is NaN
MathMax(a, b) ==
    IF a.k # "num" \/ b.k # "num" THEN NaNNum ELSE Num(IF a.n >= b.n THEN a.n ELSE b.n)
MathMin(a, b) ==
    IF a.k # "num" \/ b.k # "num" THEN NaNNum ELSE Num(IF a.n <= b.n THEN a.n ELSE b.n)

Tasks == {"t1", "t2"}
\* the ids a query may be given: those of the tasks, and the empty string
TaskIdArgs == Tasks \cup {""}
\* an argument left out of a call
Omitted == "omitted"
NoMessage == "null"
ProgressArgs == {Num(-10), Num(25), Num(150), NaNNum}
MessageArgs == {Omitted, "", "half"}
\* if (message): null and the empty string are falsy
Truthy(message) == message \notin {NoMessage, ""}
StageArgs == {Omitted, "transcribing"}

SuccessDelay == 1000
FailureDelay == 3000
SecondMs == 1000
NotFinalized == -1

\* Date.now()
DateNow == time * SecondMs

\* The tracker as the synchronous code sees and changes it; threw is set when
\* an exception propagates out of the code run
ProgNow == [loadingStates |-> loadingStates, cleanupTimers |-> cleanupTimers,
            visible |-> visible, deadline |-> deadline, threw |-> FALSE]

StartLoadingInKeepsTracked(P, t, m) ==
    IF t \in DOMAIN P.loadingStates THEN [P EXCEPT !.visible = TRUE]
    ELSE [P EXCEPT !.loadingStates =
                       MapPut(@, t, [taskId |-> t, message |-> m, progress |-> Num(0),
                                     stage |-> "initializing", startTime |-> DateNow,
                                     estimatedTimeRemaining |-> NullNum,
                                     finished |-> FALSE]),
                   !.visible = TRUE,
                   !.deadline[t] = NotFinalized]

\* startLoading(taskId, message)
StartLoadingIn(P, t, m) ==
    LET st == [taskId |-> t, message |-> m, progress |-> Num(0),
               stage |-> "initializing", startTime |-> DateNow,
               estimatedTimeRemaining |-> NullNum, finished |-> FALSE]
    IN  [P EXCEPT !.loadingStates = MapPut(@, t, st),
                  !.visible = TRUE,
                  !.deadline[t] = NotFinalized]

\* rate = progress / elapsed; if (rate > 0 && progress < 100) the estimate becomes
\* (100 - progress) / rate.  With elapsed 0 and progress above 0 the rate is
\* Infinity and the estimate 0.  The progress values of the runs divide exactly.
EstimateAtFull(prog, elapsed, old) ==
    IF prog.k = "num" /\ prog.n > 0
    THEN Num(((100 - prog.n) * elapsed) \div prog.n)
    ELSE old

Estimate(prog, elapsed, old) ==
    IF prog.k = "num" /\ prog.n > 0 /\ prog.n < 100
    THEN Num(((100 - prog.n) * elapsed) \div prog.n)
    ELSE old

UpdateProgressInKeepsStage(P, t, prog, m, stage) ==
    IF t \notin DOMAIN P.loadingStates THEN P
    ELSE LET message == IF m = Omitted THEN NoMessage ELSE m
             clamped == MathMin(Num(100), MathMax(Num(0), prog))
             st      == P.loadingStates[t]
             st1     == [st EXCEPT !.progress = clamped,
                                   !.message = IF Truthy(message) THEN message ELSE @,
                                   !.stage = IF stage = Omitted THEN @ ELSE stage]
             st2     == [st1 EXCEPT !.estimatedTimeRemaining =
                                       Estimate(clamped, DateNow - st.startTime, @)]
         IN  [P EXCEPT !.loadingStates[t] = st2]

\* updateProgress(taskId, progress, message = null, stage = 'processing')
UpdateProgressIn(P, t, prog, m, stage) ==
    IF t \notin DOMAIN P.loadingStates THEN P
    ELSE LET message == IF m = Omitted THEN NoMessage ELSE m
             stg     == IF stage = Omitted THEN "processing" ELSE stage
             clamped == MathMin(Num(100), MathMax(Num(0), prog))
             st      == P.loadingStates[t]
             st1     == [st EXCEPT !.progress = clamped,
                                   !.message = IF Truthy(message) THEN message ELSE @,
                                   !.stage = stg]
             st2     == [st1 EXCEPT !.estimatedTimeRemaining =
                                       Estimate(clamped, DateNow - st.startTime, @)]
         IN  [P EXCEPT !.loadingStates[t] = st2]

FinishLoadingInNoForce(P, t, success, m) ==
    IF t \notin DOMAIN P.loadingStates THEN P
    ELSE LET delay == IF success THEN SuccessDelay ELSE FailureDelay
         IN  [P EXCEPT !.loadingStates[t] =
                           [@ EXCEPT !.message = m,
                                     !.stage = IF success THEN "completed" ELSE "error",
                                     !.finished = TRUE],
                       !.cleanupTimers = Append(@, [task |-> t, left |-> delay]),
                       !.deadline[t] = IF @ = NotFinalized \/ DateNow + delay < @
                                       THEN DateNow + delay ELSE @]

FinishLoadingInAlwaysTimer(P, t, success, m) ==
    [P EXCEPT !.cleanupTimers =
         Append(@, [task |-> t, left |-> IF success THEN SuccessDelay ELSE FailureDelay])]

\* finishLoading(taskId, success, message)
FinishLoadingIn(P, t, success, m) ==
    IF t \notin DOMAIN P.loadingStates THEN P
    ELSE LET delay == IF success THEN SuccessDelay ELSE FailureDelay
         IN  [P EXCEPT !.loadingStates[t] =
                           [@ EXCEPT !.progress = Num(100),
                                     !.message = m,
                                     !.stage = IF success THEN "completed" ELSE "error",
                                     !.finished = TRUE],
                       !.cleanupTimers = Append(@, [task |-> t, left |-> delay]),
                       !.deadline[t] = IF @ = NotFinalized \/ DateNow + delay < @
                                       THEN DateNow + delay ELSE @]

CleanupInClearsAll(P, t) ==
    [P EXCEPT !.loadingStates = EmptyMap, !.visible = FALSE, !.deadline[t] = NotFinalized]

\* the callback finishLoading handed to setTimeout
CleanupIn(P, t) ==
    LET ls == MapDel(P.loadingStates, t)
    IN  [P EXCEPT !.loadingStates = ls,
                  !.visible = IF DOMAIN ls = {} THEN FALSE ELSE @,
                  !.deadline[t] = NotFinalized]

\* getProgress(taskId), getStage(taskId), isLoading(taskId), isLoading()
GetProgress(t) == IF t \in DOMAIN loadingStates THEN loadingStates[t].progress ELSE Num(0)
GetStage(t) == IF t \in DOMAIN loadingStates THEN loadingStates[t].stage ELSE "null"
IsLoading == DOMAIN loadingStates # {}
IsLoadingTaskAggregate(t) == IsLoading
\* if (taskId): an id that is null or the empty string is answered as isLoading()
IsLoadingTask(t) == IF Truthy(t) THEN t \in DOMAIN loadingStates ELSE IsLoading

NoArgs == [m |-> "none", stage |-> "none"]

\* what an operation leaves behind
ProgDone(P, op, t, args) ==
    /\ loadingStates' = P.loadingStates
    /\ cleanupTimers' = P.cleanupTimers
    /\ visible' = P.visible
    /\ deadline' = P.deadline
    /\ progObs' = [op |-> op, task |-> t, args |-> args, threw |-> P.threw,
                   tracked |-> t \in DOMAIN loadingStates]
    /\ UNCHANGED <<storeVars, busVars, connVars>>

\* one more call made by the application
ProgCall ==
    /\ progSteps < MaxProgSteps
    /\ progSteps' = progSteps + 1
    /\ UNCHANGED time

\* the application calls startLoading(taskId, message)
StartLoading(t) ==
    /\ ProgCall
    /\ ProgDone(StartLoadingIn(ProgNow, t, "loading"), "startLoading", t, NoArgs)

\* the application calls updateProgress(taskId, progress[, message[, stage]])
UpdateProgress(t, prog, m, stage) ==
    /\ ProgCall
    /\ ProgDone(UpdateProgressIn(ProgNow, t, prog, m, stage), "updateProgress", t,
                [m |-> m, stage |-> stage])

\* the application calls finishLoading(taskId, success, message); the run is
\* long enough for the timeout it sets to become due
FinishLoading(t, success) ==
    /\ ProgCall
    /\ Len(cleanupTimers) < MaxTimers
    /\ DateNow + (IF success THEN SuccessDelay ELSE FailureDelay) <= MaxTime * SecondMs
    /\ ProgDone(FinishLoadingIn(ProgNow, t, success, IF success THEN "done" ELSE "boom"),
                IF success THEN "finishLoading" ELSE "finishLoadingFailed", t, NoArgs)

\* the timeout that is due, the oldest one first, runs its callback
CleanupFires ==
    /\ \E i \in 1..Len(cleanupTimers) : cleanupTimers[i].left = 0
    /\ LET i == CHOOSE j \in 1..Len(cleanupTimers) :
                    /\ cleanupTimers[j].left = 0
                    /\ \A h \in 1..(j - 1) : cleanupTimers[h].left # 0
           P == [ProgNow EXCEPT !.cleanupTimers = RemoveAt(@, i)]
       IN  ProgDone(CleanupIn(P, cleanupTimers[i].task), "cleanup", cleanupTimers[i].task,
                    NoArgs)
    /\ UNCHANGED <<time, progSteps>>

\* a second passes
TimePasses ==
    /\ time < MaxTime
    /\ \A i \in 1..Len(cleanupTimers) : cleanupTimers[i].left > 0
    /\ time' = time + 1
    /\ cleanupTimers' = [i \in 1..Len(cleanupTimers) |->
                            [cleanupTimers[i] EXCEPT !.left = @ - SecondMs]]
    /\ UNCHANGED <<loadingStates, visible, deadline, progObs, progSteps>>
    /\ UNCHANGED <<storeVars, busVars, connVars>>

NoProgObs == [op |-> "init", task |-> "none", args |-> NoArgs, threw |-> FALSE,
              tracked |-> FALSE]

\* new LoadingStateManager()
ProgInit ==
    /\ loadingStates = EmptyMap
    /\ cleanupTimers = <<>>
    /\ time = 0
    /\ visible = FALSE
    /\ deadline = [t \in Tasks |-> NotFinalized]
    /\ progObs = NoProgObs
    /\ progSteps = 0

ProgNext ==
    \/ \E t \in Tasks : StartLoading(t)
    \/ \E t \in Tasks, prog \in ProgressArgs, m \in MessageArgs, stage \in StageArgs :
          UpdateProgress(t, prog, m, stage)
    \/ \E t \in Tasks, success \in BOOLEAN : FinishLoading(t, success)
    \/ CleanupFires
    \/ TimePasses

(***************************************************************************)
(* Specifications                                                          *)
(***************************************************************************)
\* a store constructed with no initial keys
StoreEmpty == StoreInit /\ state = EmptyMap

\* the three objects, each as its constructor leaves it
InitStore == StoreInit /\ BusInit /\ ConnInit /\ ProgInit
InitHist == HistInit /\ BusInit /\ ConnInit /\ ProgInit
InitEmpty == StoreEmpty /\ BusInit /\ ConnInit /\ ProgInit
InitLife == LifeInit /\ BusInit /\ ConnInit /\ ProgInit

SpecStore == InitStore /\ [][StoreNext]_vars
SpecHist == InitHist /\ [][HistNext]_vars
SpecLife == InitLife /\ [][LifeNext]_vars
SpecWatch == InitStore /\ [][WatchNext]_vars
SpecUnsub == InitEmpty /\ [][UnsubNext]_vars
SpecBus == InitEmpty /\ [][BusNext]_vars
SpecConn == InitEmpty /\ [][ConnNext]_vars
\* a timeout that is set fires: the event loop runs every timer that is due
SpecConnLive ==
    InitEmpty /\ [][ConnNext]_vars
    /\ WF_connVars(ReconnectTimerFires)

SpecMsg == InitEmpty /\ [][MsgNext]_vars

SpecProg == InitEmpty /\ [][ProgNext]_vars

\* timeouts that are due run, and time passes
SpecProgLive ==
    InitEmpty /\ [][ProgNext]_vars
    /\ WF_progVars(CleanupFires)
    /\ WF_progVars(TimePasses)

\* the close event of a socket that close() was called on: the browser fires it
\* once the closing handshake is over or has timed out
CloseEventFires == \E s \in Slots : sockets[s] = "CLOSING" /\ TransportClose(s)

\* timeouts fire, and sockets that are closing finish closing
SpecConnClose ==
    InitEmpty /\ [][ConnNext]_vars
    /\ WF_connVars(ReconnectTimerFires)
    /\ WF_connVars(CloseEventFires)

(***************************************************************************)
(* Claims about the StateManager                                           *)
(***************************************************************************)
\* the records an operation itself handed to addHistory (not its watchers)
OwnMuts(obs) == SelectSeq(obs.muts, LAMBDA m : m.depth = 0)
\* the watcher invocations of an operation's own notification round
OwnCalls(obs) == SelectSeq(obs.calls, LAMBDA c : c.depth = 0)
\* a store operation has just been performed by this step
StoreOpStep == now' = now /\ (steps' # steps \/ storeObs' # storeObs)

\* a set(k, v) step taken when get(k) === v changes nothing and notifies nobody
SetSameValueChangesNothing ==
    (StoreOpStep /\ storeObs'.op = "set"
       /\ StrictEq(Get(state, storeObs'.key), storeObs'.val))
    => /\ history' = history
       /\ state' = state
       /\ listeners' = listeners
       /\ storeObs'.calls = <<>>
       /\ storeObs'.muts = <<>>

\* this step and the store operation before it are both set(k, v)
SecondOfTwoSets ==
    /\ StoreOpStep
    /\ storeObs.op = "set" /\ storeObs'.op = "set"
    /\ storeObs'.key = storeObs.key /\ storeObs'.val = storeObs.val

\* C1 (as claimed): set(k, v) with get(k) === v is a no-op, and consequently two
\* consecutive set(k, v) calls produce at most one history record and at most one
\* notification round.
C1_TwoSetsAtMostOneRecord ==
    [][/\ SetSameValueChangesNothing
       /\ SecondOfTwoSets =>
             /\ Len(storeObs.muts) + Len(storeObs'.muts) <= 1
             /\ ~(storeObs.calls # <<>> /\ storeObs'.calls # <<>>)]_vars

\* C1 (amended): set(k, v) with get(k) === v changes neither the history, nor the
\* state, nor the watchers, and invokes no watcher; of two consecutive set(k, v)
\* calls the second is such a no-op whenever get(k) === v holds after the first,
\* and each of the two hands at most one record of its own to the history.
C1_SetSameValueIsNoOp ==
    [][/\ SetSameValueChangesNothing
       /\ (StoreOpStep /\ storeObs'.op = "set") => Len(OwnMuts(storeObs')) <= 1
       /\ (SecondOfTwoSets /\ StrictEq(Get(state, storeObs'.key), storeObs'.val))
             => /\ storeObs'.muts = <<>>
                /\ storeObs'.calls = <<>>
                /\ Len(OwnMuts(storeObs)) <= 1]_vars

\* C1 witness: a set of the value the key already holds, on a watched key
C1_Witness ==
    /\ storeObs.op = "set"
    /\ storeObs.val # Undefined
    /\ StrictEq(storeObs.old, storeObs.val)
    /\ storeObs.key \in DOMAIN listeners
    /\ history # <<>>

LastN(s, n) == SubSeq(s, Len(s) - n + 1, Len(s))
Min(x, y) == IF x < y THEN x ELSE y

\* C2 (as claimed): the history holds at most 50 records and is the most recent
\* min(n, 50) of the n effective mutations made so far.
C2_HistoryIsAllTimeWindow ==
    /\ Len(history) <= maxHistorySize
    /\ history = LastN(effLog, Min(Len(effLog), maxHistorySize))

\* C2 (amended): the history holds at most 50 records and is, in order, the most
\* recent min(n, 50) of the n effective mutations made since the history was last
\* cleared; a value-changing set and a delete each hand exactly one record of
\* their own to the history, a set of a strictly equal value none.
C2_HistoryIsRecentWindow ==
    LET since == SubSeq(effLog, clearedAt + 1, Len(effLog))
        own   == OwnMuts(storeObs)
    IN  /\ Len(history) <= maxHistorySize
        /\ history = LastN(since, Min(Len(since), maxHistorySize))
        /\ storeObs.op = "set" =>
              IF StrictEq(storeObs.old, storeObs.val) THEN own = <<>>
              ELSE /\ Len(own) = 1
                   /\ DOMAIN own[1].rec = {"property", "oldValue", "newValue", "timestamp"}
                   /\ own[1].rec.property = storeObs.key
                   /\ own[1].rec.oldValue = storeObs.old
                   /\ own[1].rec.newValue = storeObs.val
        /\ storeObs.op = "delete" =>
              /\ Len(own) = 1
              /\ "action" \in DOMAIN own[1].rec
              /\ own[1].rec.property = storeObs.key
              /\ own[1].rec.oldValue = storeObs.old
              /\ own[1].rec.newValue = Undefined

\* C2 witness: more than 50 mutations since the last clearing, the earliest evicted
C2_Witness ==
    /\ Len(effLog) - clearedAt > maxHistorySize
    /\ Len(history) = maxHistorySize
    /\ history[1] # effLog[clearedAt + 1]
    /\ clearedAt > 0

\* C3: deleting key k holding value old invokes, as the delete's own notification
\* round, each watcher registered on k exactly once, in order, with
\* (undefined, old), and no watcher of another key.
C3_DeleteNotifiesWatchersOnce ==
    [][(StoreOpStep /\ storeObs'.op = "delete")
       => LET k == storeObs'.key
              L == IF k \in DOMAIN listeners THEN listeners[k] ELSE <<>>
          IN  OwnCalls(storeObs') =
                [i \in 1..Len(L) |-> [cb |-> L[i], key |-> k, new |-> Undefined,
                                      old |-> Get(state, k), depth |-> 0]]]_vars

\* C3 witness: a present key with two watchers, and another watched key, deleted
C3_Witness ==
    /\ storeObs.op = "delete"
    /\ storeObs.old \notin {Undefined, NaN}
    /\ Len(OwnCalls(storeObs)) = 2
    /\ \E j \in DOMAIN listeners : j # storeObs.key

(***************************************************************************)
(* Claims about the EventBus                                               *)
(***************************************************************************)
\* the invocations an emit itself made (not those of a re-entrant emit)
OwnBusCalls(obs) == SelectSeq(obs.calls, LAMBDA c : c.depth = 0)
Occurrences(s, x) == Cardinality({i \in 1..Len(s) : s[i] = x})
Throws(e) == e.cb = "cb_throws"

\* C4 (as claimed): a callback registered with once(name, cb) is invoked exactly
\* once over any sequence of emit(name) calls, at most once at any moment, also
\* when cb throws and when cb calls emit(name) re-entrantly.
C4_OnceRunsAtMostOnce ==
    \A w \in 1..Len(onceRuns) : onceRuns[w] <= 1

\* C5: emit(name) invokes every non-throwing subscriber of name, whichever of its
\* subscribers throw, and no exception propagates out of emit.
C5_EmitIsolatesThrowingSubscribers ==
    [][(busSteps' # busSteps /\ busObs'.op = "emit")
       => LET L   == Subscribed(busObs'.name)
              own == OwnBusCalls(busObs')
          IN  /\ ~busObs'.escaped
              /\ \A i \in 1..Len(L) :
                    ~Throws(L[i]) =>
                       Occurrences([j \in 1..Len(own) |-> own[j].fn], L[i])
                         = Occurrences(L, L[i])]_vars

\* C5 witness: an emit in which a throwing subscriber ran before a well-behaved one
C5_Witness ==
    /\ busObs.op = "emit"
    /\ ~busObs.escaped
    /\ \E i, j \in 1..Len(busObs.snap) :
          /\ i < j
          /\ Throws(busObs.snap[i])
          /\ busObs.snap[j] = Direct("cb_ok")
          /\ Len(OwnBusCalls(busObs)) = Len(busObs.snap)

\* C6: emit(name) invokes exactly the functions subscribed to name when emit was
\* called, each once, in registration order, whatever the callbacks subscribe or
\* unsubscribe during the dispatch.
C6_EmitRunsSnapshot ==
    [][(busSteps' # busSteps /\ busObs'.op = "emit")
       => LET L   == Subscribed(busObs'.name)
              own == OwnBusCalls(busObs')
          IN  own = [i \in 1..Len(L) |-> [fn |-> L[i], name |-> busObs'.name,
                                          depth |-> 0]]]_vars

\* C6 witness: an emit during which a callback unsubscribed a later sibling, which
\* ran all the same
C6_Witness ==
    /\ busObs.op = "emit"
    /\ \E i, j \in 1..Len(busObs.snap) :
          /\ i < j
          /\ busObs.snap[i] = Direct("cb_offOk")
          /\ busObs.snap[j] = Direct("cb_ok")
    /\ Len(OwnBusCalls(busObs)) = Len(busObs.snap)
    /\ Len(Subscribed(busObs.name)) < Len(busObs.snap)

(***************************************************************************)
(* Claims about the WebSocketManager                                       *)
(***************************************************************************)
LiveSockets == {s \in Slots : sockets[s] \in {"CONNECTING", "OPEN"}}

\* C7 (as claimed): whenever the connection is not OPEN, send(frame) transmits
\* nothing on any transport and throws no error.
C7_SendWhileNotOpenIsSilent ==
    (connObs.op = "send" /\ connObs.pre # "OPEN")
       => (connObs.sent = <<>> /\ ~connObs.threw)

\* C8 (as claimed): at most one transport made by the manager is CONNECTING or
\* OPEN at any time.
C8_AtMostOneLiveSocket == Cardinality(LiveSockets) <= 1

\* a step in which the close callback of a socket ran
CloseCallbackStep ==
    connObs'.op \in {"transportClose", "transportError"} /\ sockets' # sockets
\* a step in which a reconnect timeout fired
ReconnectStep ==
    connObs'.op = "reconnect" /\ reconnectTimers' # reconnectTimers

\* C9: every firing of a socket's close callback schedules exactly one reconnect
\* timer; the timer's firing calls connect(), which leaves the manager CONNECTING;
\* so, the timer being run when due, every close is followed by the manager being
\* CONNECTING again, cycle after cycle.
C9_CloseLeadsToReconnect ==
    /\ [][CloseCallbackStep => reconnectTimers' = reconnectTimers + 1]_vars
    /\ [][ReconnectStep => /\ reconnectTimers' = reconnectTimers - 1
                           /\ socket' # Null
                           /\ sockets'[socket'] = "CONNECTING"
                           /\ sockets[socket'] = "FREE" \/ socket' = socket]_vars
    /\ (reconnectTimers > 0) ~> (connObs.op = "reconnect" /\ GetState = "CONNECTING")

\* C9 witness: a second cycle: the socket made by a reconnect has itself closed and
\* been replaced by the next reconnect
C9_Witness ==
    /\ connObs.op = "reconnect"
    /\ GetState = "CONNECTING"
    /\ nConnects = 1
    /\ Cardinality(LiveSockets) = 1
    /\ reconnectTimers = 0
    /\ socket = 1

\* C10: a transport error dispatches the "error" event, throws nothing, and is
\* followed by a reconnect attempt: the close callback that comes with it schedules
\* the timer whose firing calls connect().
C10_ErrorSurfacesAndReconnects ==
    /\ [][(connObs'.op = "transportError" /\ sockets' # sockets)
          => /\ \E i \in 1..Len(connObs'.emitted) : connObs'.emitted[i] = "error"
             /\ ~connObs'.threw
             /\ reconnectTimers' = reconnectTimers + 1]_vars
    /\ (connObs.op = "transportError") ~> (connObs.op = "reconnect")

\* C10 witness: a socket that was open has failed, and the reconnect is pending
C10_Witness ==
    /\ connObs.op = "transportError"
    /\ connObs.pre = "OPEN"
    /\ connObs.emitted = <<"error", "close">>
    /\ ~isConnected
    /\ reconnectTimers = 1

\* C11: close() leaves no heartbeat timer, an empty handler registry and the
\* manager disconnected, and sets no timer itself; the close event of the socket
\* it closed then schedules the reconnect as any close does, so a close() of a
\* live socket is followed by the manager being CONNECTING again; the open
\* callback makes the manager connected with the heartbeat running, and only
\* on() puts a handler into the registry that close() emptied.
C11_CloseStillReconnects ==
    /\ [][connObs'.op = "close"
          => /\ heartbeatTimer' = Null
             /\ intervals' = {}
             /\ messageHandlers' = EmptyMap
             /\ socket' = Null
             /\ ~isConnected'
             /\ reconnectTimers' = reconnectTimers]_vars
    /\ (connObs.op = "close" /\ connObs.pre \in {"CONNECTING", "OPEN"})
          ~> (connObs.op = "reconnect" /\ GetState = "CONNECTING")
    /\ [][connObs'.op = "open"
          => /\ isConnected'
             /\ heartbeatTimer' # Null
             /\ intervals' = {heartbeatTimer'}]_vars
    /\ [][(messageHandlers = EmptyMap /\ messageHandlers' # EmptyMap)
          => connObs'.op = "on"]_vars

\* C11 witness: after a close() of an open manager that had a heartbeat and a
\* handler, the socket made by the reconnect has opened: connected, heartbeat
\* running, no handler
C11_Witness ==
    /\ closeSeen
    /\ nConnects = 1
    /\ connObs.op = "open"
    /\ GetState = "OPEN"
    /\ isConnected
    /\ heartbeatTimer # Null
    /\ messageHandlers = EmptyMap

\* the frames of an observation that are heartbeat pings
PingsOf(obs) == SelectSeq(obs.sent, LAMBDA x : x.frame = Ping)

\* C12: every open callback leaves the heartbeat timer set; every close
\* callback leaves it cleared, with no interval left behind; a ping is handed to
\* a socket only by a tick of the timer, at which the manager is connected and
\* its socket is OPEN; and since a close callback leaves the manager
\* disconnected and only an open callback connects it, no ping is sent between
\* a close and the next open.
C12_HeartbeatFollowsConnection ==
    /\ [][connObs'.op = "open"
          => heartbeatTimer' # Null /\ intervals' = {heartbeatTimer'}]_vars
    /\ [][connObs'.op \in {"transportClose", "transportError"}
          => heartbeatTimer' = Null /\ intervals' = {} /\ ~isConnected']_vars
    /\ [][PingsOf(connObs') # <<>>
          => /\ connObs'.op = "heartbeat"
             /\ isConnected
             /\ GetState = "OPEN"
             /\ PingsOf(connObs') = <<[sock |-> socket, frame |-> Ping]>>]_vars
    /\ [][(~isConnected /\ isConnected') => connObs'.op = "open"]_vars

\* C12 witness: a ping is sent by the heartbeat that the open callback of a
\* reconnected socket started, after an explicit close had stopped the first one
C12_Witness ==
    /\ closeSeen
    /\ nConnects = 1
    /\ connObs.op = "heartbeat"
    /\ PingsOf(connObs) # <<>>

\* a step in which the message callback ran with the given payload
MessageStep(payload) == connObs'.op = "message" /\ connObs'.arg = payload

\* C13: a message event whose payload does not parse invokes no handler,
\* dispatches no "message" event (nor any other), lets no exception out of the
\* callback, and leaves the sockets, the connected flag, the heartbeat timer,
\* the pending reconnects and the handler registry as they were.
C13_MalformedFrameIsDropped ==
    [][MessageStep("garbage")
       => /\ connObs'.calls = <<>>
          /\ connObs'.emitted = <<>>
          /\ connObs'.sent = <<>>
          /\ ~connObs'.threw
          /\ UNCHANGED <<sockets, socket, isConnected, heartbeatTimer, intervals,
                         reconnectTimers, messageHandlers>>]_vars

\* C13 witness: a malformed frame has arrived on the open connection of a manager
\* with its heartbeat running and handlers registered
C13_Witness ==
    /\ connObs.op = "message"
    /\ connObs.arg = "garbage"
    /\ isConnected
    /\ GetState = "OPEN"
    /\ heartbeatTimer # Null
    /\ Registered = 2

\* the handlers an observation found registered for type t before it ran
HadFor(obs, t) == IF t \in DOMAIN obs.had THEN obs.had[t] ELSE <<>>
\* the handlers an observation invoked, in order
Invoked(obs) == [i \in 1..Len(obs.calls) |-> obs.calls[i].h]

\* C14 (as claimed): for an inbound frame of type T the handlers registered for
\* T are invoked in registration order, each with the frame, whether or not one
\* of them throws; no exception leaves the dispatch; no handler of another type
\* is invoked.
C14_HandlersRunInOrderIsolated ==
    [][\A t \in MsgTypes :
         MessageStep(t)
         => /\ Invoked(connObs') = HadFor(connObs', t)
            /\ \A i \in 1..Len(connObs'.calls) : connObs'.calls[i].frame = t
            /\ ~connObs'.threw]_vars

\* registration x was made for the function e handed to off(): e itself, or,
\* for a callback, a wrapper once() made for it
RegistrationOf(x, e) == IF e.w = 0 THEN x.cb = e.cb ELSE x = e

\* a step in which the given operation was performed on the bus
BusStep(op) == busSteps' = busSteps + 1 /\ busObs'.op = op

\* C28 (as claimed): listenerCount(name) is the number of live registrations
\* for the name: on and once each add one; off(name, cb), when cb has a
\* registration, removes exactly one registration of cb and keeps the order of
\* the rest; off(name) removes all; and eventNames() lists exactly the names
\* whose listenerCount is above 0.
C28_ListenerCountTracksRegistrations ==
    /\ [][\A n \in EventNames :
            /\ ((BusStep("on") \/ BusStep("once")) /\ busObs'.name = n)
               => /\ ListenerCount(n)' = ListenerCount(n) + 1
                  /\ Subscribed(n)' = Append(Subscribed(n), busObs'.fn)
            /\ (/\ BusStep("off") /\ busObs'.name = n
                /\ \E i \in 1..Len(Subscribed(n)) :
                       RegistrationOf(Subscribed(n)[i], busObs'.fn))
               => /\ ListenerCount(n)' = ListenerCount(n) - 1
                  /\ \E i \in 1..Len(Subscribed(n)) :
                        /\ RegistrationOf(Subscribed(n)[i], busObs'.fn)
                        /\ Subscribed(n)' = RemoveAt(Subscribed(n), i)
            /\ (BusStep("offAll") /\ busObs'.name = n) => ListenerCount(n)' = 0]_vars
    /\ [](BusEventNames = {n \in EventNames : ListenerCount(n) > 0})

(***************************************************************************)
(* Claims about the LoadingStateManager                                     *)
(***************************************************************************)
\* C15 (as claimed): in every reachable state the progress of every tracked
\* task is a number within [0, 100].
C15_ProgressWithinRange ==
    \A t \in DOMAIN loadingStates :
        /\ loadingStates[t].progress.k = "num"
        /\ loadingStates[t].progress.n >= 0
        /\ loadingStates[t].progress.n <= 100

\* a step in which the application made the given call on the tracker
CallStep(op) == progSteps' = progSteps + 1 /\ progObs'.op = op
\* a step in which a cleanup timeout ran
CleanupStep == Len(cleanupTimers') < Len(cleanupTimers)

\* C16: right after finishLoading(taskId, success, message) on a tracked task,
\* whatever its progress and stage were, getProgress(taskId) is 100,
\* getStage(taskId) is "completed" when success and "error" otherwise, and the
\* entry is marked finished.
C16_FinishForcesTerminalState ==
    [][\A t \in Tasks :
         /\ (CallStep("finishLoading") /\ progObs'.task = t /\ IsLoadingTask(t))
            => /\ GetProgress(t)' = Num(100)
               /\ GetStage(t)' = "completed"
               /\ loadingStates'[t].finished
         /\ (CallStep("finishLoadingFailed") /\ progObs'.task = t /\ IsLoadingTask(t))
            => /\ GetProgress(t)' = Num(100)
               /\ GetStage(t)' = "error"
               /\ loadingStates'[t].finished]_vars

\* C16 witness: a task that had been updated, and so has an estimate, has been
\* finished as failed
C16_Witness ==
    /\ progObs.op = "finishLoadingFailed"
    /\ progObs.tracked
    /\ progObs.task = "t1"
    /\ GetProgress("t1") = Num(100)
    /\ GetStage("t1") = "error"
    /\ loadingStates["t1"].estimatedTimeRemaining # NullNum
    /\ cleanupTimers = <<[task |-> "t1", left |-> FailureDelay]>>

\* a step in which a cleanup timeout purged task t
Purged(t) == CleanupStep /\ IsLoadingTask(t) /\ ~IsLoadingTask(t)'

\* C17 (as claimed): the success delay is shorter than the failure delay; a
\* finalized task is purged only once the grace delay of its finalization has
\* elapsed, so a failed task never at once; every finalized task is eventually
\* purged; and after a purge that leaves no task tracked isLoading() is false.
C17_FinalizedTaskPurgedAfterGrace ==
    /\ SuccessDelay < FailureDelay
    /\ [][\A t \in Tasks :
            (Purged(t) /\ loadingStates[t].finished) => DateNow >= deadline[t]]_vars
    /\ \A t \in Tasks :
          (IsLoadingTask(t) /\ loadingStates[t].finished) ~> ~IsLoadingTask(t)
    /\ [][(CleanupStep /\ DOMAIN loadingStates' = {}) => ~IsLoading']_vars

\* C18 (as claimed): a cleanup timeout set for an entry that startLoading has
\* since replaced does not purge the new entry: an entry is purged only after
\* it has itself been finished and a grace delay of its own has elapsed.
C18_StaleTimerSpareNewTask ==
    [][\A t \in Tasks :
         Purged(t) => /\ loadingStates[t].finished
                      /\ deadline[t] # NotFinalized
                      /\ DateNow >= deadline[t]]_vars

\* C19 (as claimed): updateProgress on a tracked task changes the message only
\* when a message is given and the stage only when a stage is given; with the
\* stage left out the task keeps the stage it had.
C19_UpdateKeepsOmittedFields ==
    [][\A t \in Tasks :
         (CallStep("updateProgress") /\ progObs'.task = t /\ IsLoadingTask(t))
         => /\ progObs'.args.m = Omitted
                 => loadingStates'[t].message = loadingStates[t].message
            /\ progObs'.args.stage = Omitted
                 => loadingStates'[t].stage = loadingStates[t].stage]_vars

\* C19 (as the code has it): updateProgress on a tracked task changes the
\* message only when a non-empty message is given, and always assigns the
\* stage: the stage given, or "processing" when the stage is left out.
C19_UpdateDefaultsStage ==
    [][\A t \in Tasks :
         (CallStep("updateProgress") /\ progObs'.task = t /\ IsLoadingTask(t))
         => /\ loadingStates'[t].message =
                  IF progObs'.args.m \in {Omitted, ""} THEN loadingStates[t].message
                  ELSE progObs'.args.m
            /\ loadingStates'[t].stage =
                  IF progObs'.args.stage = Omitted THEN "processing"
                  ELSE progObs'.args.stage]_vars

\* C19 witness: a task that had been given a message has been updated with
\* neither message nor stage: it keeps the message and its stage is "processing"
C19_Witness ==
    /\ progObs.op = "updateProgress"
    /\ progObs.tracked
    /\ progObs.args = [m |-> Omitted, stage |-> Omitted]
    /\ progObs.task = "t1"
    /\ loadingStates["t1"].message = "half"
    /\ loadingStates["t1"].stage = "processing"

\* C20: updateProgress and finishLoading for a taskId that is not tracked throw
\* nothing, create no entry, set no timeout, and leave the entries of the other
\* tasks, and the container, as they were.
C20_UnknownTaskIsNoOp ==
    [][\A t \in Tasks :
         (/\ \/ CallStep("updateProgress")
             \/ CallStep("finishLoading")
             \/ CallStep("finishLoadingFailed")
          /\ progObs'.task = t
          /\ ~IsLoadingTask(t))
         => /\ ~progObs'.threw
            /\ UNCHANGED <<loadingStates, cleanupTimers, visible>>]_vars

\* C20 witness: finishLoading has been called for a task that is not tracked
\* while another task is
C20_Witness ==
    /\ progObs.op = "finishLoadingFailed"
    /\ ~progObs.tracked
    /\ progObs.task = "t1"
    /\ DOMAIN loadingStates = {"t2"}
    /\ cleanupTimers = <<>>

\* a step in which an operation on task t ran: a call made for t, or the
\* cleanup timeout of t
TaskStep(t) ==
    /\ progObs'.task = t
    /\ \/ progSteps' = progSteps + 1
       \/ CleanupStep

\* C21: startLoading, updateProgress, finishLoading and the cleanup timeout of
\* a task A leave every other task B as it was: B stays tracked or untracked,
\* and its message, progress, stage, start time, estimate and finished flag are
\* unchanged.
C21_TasksAreIndependent ==
    [][\A a \in Tasks, b \in Tasks :
         (a # b /\ TaskStep(a))
         => /\ (b \in DOMAIN loadingStates') = (b \in DOMAIN loadingStates)
            /\ b \in DOMAIN loadingStates => loadingStates'[b] = loadingStates[b]]_vars

\* C21 witness: the cleanup timeout of t1 has purged t1 while t2, which had
\* been updated, stays tracked
C21_Witness ==
    /\ progObs.op = "cleanup"
    /\ progObs.task = "t1"
    /\ progObs.tracked
    /\ DOMAIN loadingStates = {"t2"}
    /\ loadingStates["t2"].progress = Num(25)

\* a step that changes whether task t is tracked does so the way the tracker
\* says: startLoading(t) tracks it, and only the cleanup timeout of t stops it
TrackedByStartUntilPurge ==
    [][\A t \in Tasks :
         /\ (CallStep("startLoading") /\ progObs'.task = t) => t \in DOMAIN loadingStates'
         /\ (t \in DOMAIN loadingStates /\ t \notin DOMAIN loadingStates')
               => (CleanupStep /\ progObs'.task = t)
         /\ (t \notin DOMAIN loadingStates /\ t \in DOMAIN loadingStates')
               => (CallStep("startLoading") /\ progObs'.task = t)]_vars

\* C22 (as claimed): isLoading() is true exactly when at least one task is
\* tracked, a finished task whose cleanup timeout is pending included, and
\* isLoading(taskId) is true exactly when that taskId is tracked, for every
\* taskId.
C22_IsLoadingIffTracked ==
    /\ TrackedByStartUntilPurge
    /\ [](IsLoading <=> \E t \in Tasks : t \in DOMAIN loadingStates)
    /\ [](\A id \in TaskIdArgs : IsLoadingTask(id) <=> id \in DOMAIN loadingStates)

\* C22 (as the code has it): isLoading() is true exactly when at least one task
\* is tracked, a finished task whose cleanup timeout is pending included;
\* isLoading(taskId) is true exactly when that taskId is tracked when the
\* taskId is not empty, and is isLoading() when it is the empty string.
C22_IsLoadingIffTrackedNonEmptyId ==
    /\ TrackedByStartUntilPurge
    /\ [](IsLoading <=> \E t \in Tasks : t \in DOMAIN loadingStates)
    /\ [](\A id \in TaskIdArgs :
            IsLoadingTask(id) <=> IF id = "" THEN IsLoading
                                  ELSE id \in DOMAIN loadingStates)

\* C22 witness: t1 is finished and waits for its cleanup timeout, t2 is not
\* tracked: isLoading() and isLoading("t1") are true, isLoading("t2") is false
C22_Witness ==
    /\ DOMAIN loadingStates = {"t1"}
    /\ loadingStates["t1"].finished
    /\ cleanupTimers # <<>>
    /\ IsLoading
    /\ IsLoadingTask("t1")
    /\ ~IsLoadingTask("t2")

\* the estimate the claim gives for clamped progress p after the elapsed time
ClaimedEstimate(p, elapsed, old, zeroToo) ==
    IF p.k = "num" /\ p.n > 0 /\ p.n < 100 /\ (elapsed > 0 \/ (zeroToo /\ elapsed = 0))
    THEN Num(((100 - p.n) * elapsed) \div p.n)
    ELSE old

\* the estimate follows ClaimedEstimate at every updateProgress of a tracked
\* task, and a task just started has none
EstimateFollows(zeroToo) ==
    \A t \in Tasks :
        /\ (CallStep("updateProgress") /\ progObs'.task = t /\ t \in DOMAIN loadingStates)
           => loadingStates'[t].estimatedTimeRemaining =
                 ClaimedEstimate(loadingStates'[t].progress,
                                 DateNow - loadingStates[t].startTime,
                                 loadingStates[t].estimatedTimeRemaining, zeroToo)
        /\ (CallStep("startLoading") /\ progObs'.task = t)
           => loadingStates'[t].estimatedTimeRemaining = NullNum

\* C30 (as claimed): updateProgress recomputes the estimate only when the
\* clamped progress p satisfies 0 < p < 100 and the time elapsed since startTime
\* is positive, to (100 - p) * elapsed / p; otherwise, so when p is 0 or 100, the
\* estimate is left as it was; a task just started has no estimate.
C30_EstimateOnlyWhenElapsedPositive == [][EstimateFollows(FALSE)]_vars

\* C30 (as the code has it): updateProgress recomputes the estimate whenever the
\* clamped progress p satisfies 0 < p < 100, to (100 - p) * elapsed / p, which is
\* 0 when no time has elapsed since startTime; when p is 0, 100 or NaN the
\* estimate is left as it was; a task just started has no estimate.
C30_EstimateWhenProgressInside == [][EstimateFollows(TRUE)]_vars

\* C30 witness: a task started a second ago has been updated to 25: its
\* estimate is three times the elapsed time
C30_Witness ==
    /\ progObs.op = "updateProgress"
    /\ progObs.task = "t1"
    /\ progObs.tracked
    /\ loadingStates["t1"].progress = Num(25)
    /\ DateNow - loadingStates["t1"].startTime = SecondMs
    /\ loadingStates["t1"].estimatedTimeRemaining = Num(3 * SecondMs)

(***************************************************************************)
(* Further claims about the StateManager                                   *)
(***************************************************************************)
\* the history record has an action kind, and it is the given one
HasAction(rec, kind) == "action" \in DOMAIN rec /\ rec.action = kind
\* the operation of this step handed exactly one record to addHistory, and no
\* watcher changed the store
OneOwnRecord(obs) == Len(obs.muts) = 1 /\ obs.muts[1].depth = 0

\* C29 (as claimed): every history record carries an action kind that is
\* either set or delete; setting an existing key to undefined is recorded as a
\* set and leaves the key present in getState(); deleting a key is recorded as
\* a delete and removes the key from getState().
C29_RecordsCarryActionKind ==
    /\ [](\A i \in 1..Len(history) :
             HasAction(history[i], "set") \/ HasAction(history[i], "delete"))
    /\ [][\A k \in Keys :
            /\ (/\ StoreOpStep /\ storeObs'.op = "set" /\ storeObs'.key = k
                /\ storeObs'.val = Undefined
                /\ k \in DOMAIN state /\ state[k] # Undefined
                /\ OneOwnRecord(storeObs'))
               => /\ HasAction(storeObs'.muts[1].rec, "set")
                  /\ k \in DOMAIN state' /\ state'[k] = Undefined
            /\ (/\ StoreOpStep /\ storeObs'.op = "delete" /\ storeObs'.key = k
                /\ OneOwnRecord(storeObs'))
               => /\ HasAction(storeObs'.muts[1].rec, "delete")
                  /\ k \notin DOMAIN state']_vars

\* a step in which the given operation was performed on the store
StoreCall(op) == StoreOpStep /\ steps' = steps + 1 /\ storeObs'.op = op
\* no watcher changed the store during the operation
NoWatcherMutation(obs) == \A i \in 1..Len(obs.muts) : obs.muts[i].depth = 0

\* the object handed to reset(), as a map from its keys to their values
NewStateMap(newState) ==
    [k \in {newState[i].key : i \in 1..Len(newState)} |->
        newState[CHOOSE i \in 1..Len(newState) : newState[i].key = k].val]
\* the same without the keys whose value is undefined
DefinedPart(m) == [k \in {x \in DOMAIN m : m[x] # Undefined} |-> m[k]]

RECURSIVE DeleteNotifications(_, _)
\* the watcher invocations that the deletion of the keys, in this order, makes
DeleteNotifications(keys, i) ==
    IF i > Len(keys) THEN <<>>
    ELSE [j \in 1..Len(Watching(keys[i])) |-> [cb |-> Watching(keys[i])[j], key |-> keys[i]]]
         \o DeleteNotifications(keys, i + 1)

\* during the reset of this step the watchers of every key that existed were
\* notified once with newValue undefined, and only then were the keys of
\* newState assigned, each assignment notifying with the value assigned
DeletionsNotifiedFirst ==
    LET own == OwnCalls(storeObs')
        exp == DeleteNotifications(storeObs'.arg.keys, 1)
        new == storeObs'.arg.newState
    IN  /\ Len(own) >= Len(exp)
        /\ \A i \in 1..Len(exp) :
              /\ own[i].cb = exp[i].cb
              /\ own[i].key = exp[i].key
              /\ own[i].new = Undefined
        /\ \A i \in (Len(exp) + 1)..Len(own) :
              \E j \in 1..Len(new) : new[j].key = own[i].key /\ new[j].val = own[i].new

C24_DestroyLeavesNothing ==
    [][(StoreCall("destroy") /\ DOMAIN state # {})
       => /\ listeners' = EmptyMap
          /\ state' = EmptyMap
          /\ history' = <<>>
          /\ storeObs'.calls = <<>>]_vars

\* a step in which the caller changed the object getState() had returned
SnapshotStep == StoreCall("snapshotSet") \/ StoreCall("snapshotDelete")

\* C25: the object getState() returns has the keys and values the store has
\* at the call; changing it afterwards changes neither the state nor the
\* history of the store and invokes no watcher; and no later operation on the
\* store changes its keys or their values.
C25_GetStateIsDetached ==
    [][/\ StoreCall("getState") => SnapshotView' = state /\ state' = state
       /\ SnapshotStep
            => /\ state' = state
               /\ history' = history
               /\ listeners' = listeners
               /\ storeObs'.calls = <<>>
               /\ storeObs'.muts = <<>>
       /\ (snapshot.ref # "none" /\ steps' = steps + 1
             /\ storeObs'.op \in {"set", "update", "reset", "destroy", "watch"})
            => SnapshotView' = SnapshotView]_vars

\* C25 witness: a watched key of the store has been assigned in the object
\* getState() returned: the store still has the old value
C25_Witness ==
    /\ storeObs.op = "snapshotSet"
    /\ storeObs.key = "a"
    /\ "a" \in DOMAIN listeners
    /\ Get(state, "a") = "v1"
    /\ Get(SnapshotView, "a") = "v2"

\* object m is the shallow merge of objects c and u: it has the properties of
\* both, with the value u gives where u has the property
ShallowMergeOf(m, c, u) ==
    /\ DOMAIN m = DOMAIN c \cup DOMAIN u
    /\ \A f \in DOMAIN u : m[f] = u[f]
    /\ \A f \in DOMAIN c \ DOMAIN u : m[f] = c[f]

\* C27: update(key, partial) assigns a new object that is the shallow merge of
\* the current value and partial when the current value is an object, and
\* partial itself otherwise (a primitive, null, undefined); either way the
\* assignment is made as set makes it: one history record with the previous
\* value as oldValue, and one notification of the watchers of the key with the
\* assigned and the previous value.
C27_UpdateMergesThroughSet ==
    [][\A k \in Keys :
         (StoreCall("update") /\ storeObs'.key = k)
         => LET cur == Get(state, k)
                u   == storeObs'.val
                own == OwnMuts(storeObs')
                new == own[1].rec.newValue
                cs  == OwnCalls(storeObs')
            IN  /\ Len(own) = 1
                /\ own[1].rec.property = k
                /\ own[1].rec.oldValue = cur
                /\ "action" \notin DOMAIN own[1].rec
                /\ IF cur \in DOMAIN heap
                   THEN /\ new \notin DOMAIN heap
                        /\ new \in DOMAIN heap'
                        /\ ShallowMergeOf(heap'[new], heap[cur], heap[u])
                   ELSE new = u
                /\ Len(cs) = Len(Watching(k))
                /\ \A i \in 1..Len(cs) :
                      /\ cs[i].cb = Watching(k)[i]
                      /\ cs[i].key = k
                      /\ cs[i].new = new
                      /\ cs[i].old = cur]_vars

\* C27 witness: a key holding {x: "2", y: "2"} has been updated with {x: "1"}:
\* it holds a new object {x: "1", y: "2"}, and the history has one record more
C27_Witness ==
    /\ storeObs.op = "update"
    /\ storeObs.key = "a"
    /\ storeObs.val = "o1"
    /\ Get(state, "a") \in DOMAIN heap
    /\ heap[Get(state, "a")] = [f \in {"x", "y"} |-> IF f = "x" THEN "1" ELSE "2"]
    /\ Len(history) = 2

\* a step in which set or delete changed key k
MutationStep(k) ==
    /\ StoreOpStep /\ steps' = steps + 1
    /\ storeObs'.op \in {"set", "delete"}
    /\ storeObs'.key = k
    /\ storeObs'.muts # <<>>

\* the watchers of k registered when the step began were each invoked once, in
\* the order of their registration, with the new and the old value
DeliveredToRegistered(k) ==
    LET cs == OwnCalls(storeObs')
    IN  /\ Len(cs) = Len(Watching(k))
        /\ \A i \in 1..Len(cs) :
              /\ cs[i].cb = Watching(k)[i]
              /\ cs[i].new = (IF storeObs'.op = "set" THEN storeObs'.val ELSE Undefined)
              /\ cs[i].old = Get(state, k)

\* C26 (as claimed): the function watch(key, cb) returns removes the
\* subscription that call made; a mutation of a key delivers (newValue,
\* oldValue) to exactly the watchers registered when the notification starts,
\* in registration order, whatever watchers watch or unwatch during the
\* dispatch; and a watcher that throws neither stops the others nor makes set
\* or delete throw.
C26_UnsubscribeRemovesThatSubscription ==
    [][\A k \in Keys :
         /\ (StoreCall("unsubscribe") /\ storeObs'.key = k)
              => Watching(k)' = RemoveAt(Watching(k), storeObs'.arg)
         /\ MutationStep(k) => (DeliveredToRegistered(k) /\ ~storeObs'.escaped)]_vars

\* C26 (as the code has it): the function watch(key, cb) returns removes the
\* earliest subscription of cb to the key that is still registered, keeping
\* the others in order; a mutation of a key delivers (newValue, oldValue) to
\* exactly the watchers registered when the notification starts, in
\* registration order, whatever watchers watch or unwatch during the dispatch;
\* and a watcher that throws neither stops the others nor makes set or delete
\* throw.
C26_UnsubscribeRemovesEarliestOfCallback ==
    [][\A k \in Keys :
         /\ (StoreCall("unsubscribe") /\ storeObs'.key = k)
              => \E i \in 1..Len(Watching(k)) :
                    /\ Watching(k)[i] = storeObs'.val
                    /\ \A j \in 1..(i - 1) : Watching(k)[j] # storeObs'.val
                    /\ Watching(k)' = RemoveAt(Watching(k), i)
         /\ MutationStep(k) => (DeliveredToRegistered(k) /\ ~storeObs'.escaped)]_vars

\* C26 witness: a key watched by a watcher that throws, one that unwatches
\* w_ok, and w_ok has been set: all three were invoked, and w_ok is no longer
\* watching
C26_Witness ==
    /\ storeObs.op = "set"
    /\ storeObs.key = "a"
    /\ Len(storeObs.calls) = 3
    /\ storeObs.calls[1].cb = "w_throw"
    /\ storeObs.calls[2].cb = "w_unwatchOk"
    /\ storeObs.calls[3].cb = "w_ok"
    /\ ~storeObs.escaped
    /\ Watching("a") = <<"w_throw", "w_unwatchOk">>

(***************************************************************************)
(* Further claims about the WebSocketManager                                *)
(***************************************************************************)
\* the dispatch of this step fired the "message" event once, after every
\* handler invocation it made, and let no exception out
MessageFiredOnceAfterHandlers ==
    /\ connObs'.emitted = <<"message">>
    /\ connObs'.emitAt = <<Len(connObs'.calls)>>
    /\ ~connObs'.threw

\* C31 (as claimed): every inbound frame whose text parses as JSON fires the
\* "message" event exactly once, after the handlers of its type have been
\* invoked, whether or not a handler is registered for the type and whether or
\* not a handler threw.
C31_ParsedFrameFiresMessageOnce ==
    [][\A payload \in Payloads \ {"garbage"} :
         MessageStep(payload) => MessageFiredOnceAfterHandlers]_vars

\* C31 (as the code has it): every inbound frame whose text parses as JSON to
\* a value other than null fires the "message" event exactly once, after the
\* handlers of its type have been invoked, whether or not a handler is
\* registered for the type and whether or not a handler threw; a frame whose
\* text is the JSON null is dropped as an unparsable one is: no event, no
\* exception.
C31_NonNullFrameFiresMessageOnce ==
    [][/\ \A payload \in Payloads \ {"garbage", "null"} :
            MessageStep(payload) => MessageFiredOnceAfterHandlers
       /\ MessageStep("null")
            => (connObs'.emitted = <<>> /\ connObs'.calls = <<>> /\ ~connObs'.threw)]_vars

\* C31 witness: a frame has arrived whose type has a handler that throws and
\* one that returns: both were invoked, then the "message" event was fired
C31_Witness ==
    /\ connObs.op = "message"
    /\ connObs.arg = "progress"
    /\ Invoked(connObs) = <<"h_throw", "h_ok">>
    /\ connObs.emitted = <<"message">>
    /\ connObs.emitAt = <<2>>

\* C36 (as claimed): every handler registered for type T when a frame of type
\* T arrives is invoked exactly once for that frame, once per registration,
\* also when a handler calls off(T, h), on itself or on a sibling, or
\* on(T, h') during the dispatch.
C36_EveryRegisteredHandlerRunsOnce ==
    [][\A t \in MsgTypes :
         MessageStep(t)
         => \A i \in 1..Len(HadFor(connObs', t)) :
                Occurrences(Invoked(connObs'), HadFor(connObs', t)[i])
                    = Occurrences(HadFor(connObs', t), HadFor(connObs', t)[i])]_vars

\* a step in which a socket's close callback ran, or close() was called
CloseRan == connObs'.op \in {"transportClose", "transportError", "close"}

\* C34: at most one heartbeat interval exists at any time, and it is the one
\* the timer handle names: starting a heartbeat cancels the previous one, so
\* no interval is leaked by open, error and close callbacks, connect(),
\* close() and reconnects; right after a close callback or close() the timer
\* handle is null and no interval is left.
C34_AtMostOneHeartbeat ==
    /\ [](/\ Cardinality(intervals) <= 1
          /\ intervals = IF heartbeatTimer = Null THEN {} ELSE {heartbeatTimer})
    /\ [][CloseRan => (heartbeatTimer' = Null /\ intervals' = {})]_vars

\* C34 witness: two sockets made by the manager are open, the second has just
\* opened and started a heartbeat, and one interval exists
C34_Witness ==
    /\ connObs.op = "open"
    /\ heartbeatTimer # Null
    /\ Cardinality({s \in Slots : sockets[s] = "OPEN"}) = 2
    /\ Cardinality(intervals) = 1

\* C35 (as claimed): in every reachable state, isConnected implies that the
\* manager's current socket is not null and is OPEN, also across close(),
\* repeated connect() and the callbacks of a superseded socket.
C35_ConnectedMeansOpenSocket ==
    isConnected => (socket # Null /\ sockets[socket] = "OPEN")

(***************************************************************************)
(* Further claims about the LoadingStateManager                             *)
(***************************************************************************)
\* C33 (as claimed): once finishLoading has finalized a task, its terminal
\* state is stable until the task is purged: an updateProgress made for it
\* during the grace period leaves its progress at 100 and its stage at
\* "completed" or "error".
C33_FinalizedStateIsStable ==
    [][\A t \in Tasks :
         (/\ t \in DOMAIN loadingStates
          /\ loadingStates[t].finished
          /\ CallStep("updateProgress")
          /\ progObs'.task = t)
         => /\ t \in DOMAIN loadingStates'
            /\ loadingStates'[t].progress = Num(100)
            /\ loadingStates'[t].stage \in {"completed", "error"}]_vars

\* C39: for a task id that is not tracked getProgress returns 0 and getStage
\* returns null; and startLoading(taskId), whether the id is tracked or not,
\* leaves an entry for it with progress 0, stage "initializing", no estimate
\* and not finished.
C39_DefaultsAndFreshEntry ==
    /\ [](\A t \in Tasks :
            t \notin DOMAIN loadingStates
            => (GetProgress(t) = Num(0) /\ GetStage(t) = "null"))
    /\ [][\A t \in Tasks :
            (CallStep("startLoading") /\ progObs'.task = t)
            => /\ t \in DOMAIN loadingStates'
               /\ GetProgress(t)' = Num(0)
               /\ GetStage(t)' = "initializing"
               /\ loadingStates'[t].estimatedTimeRemaining = NullNum
               /\ ~loadingStates'[t].finished]_vars

\* C39 witness: startLoading has just been called for a task that was tracked
\* and finalized, its purge still pending, while the other task is untracked
C39_Witness ==
    /\ progObs.op = "startLoading"
    /\ progObs.task = "t1"
    /\ progObs.tracked
    /\ \E i \in 1..Len(cleanupTimers) : cleanupTimers[i].task = "t1"
    /\ GetProgress("t1") = Num(0)
    /\ ~loadingStates["t1"].finished
    /\ "t2" \notin DOMAIN loadingStates
    /\ GetStage("t2") = "null"

(***************************************************************************)
(* Further claims about the StateManager                                    *)
(***************************************************************************)
\* C37 (as claimed): whenever a watcher of key k is invoked with
\* (newValue, oldValue), get(k) returns that newValue and the history record
\* of that mutation has already been appended; this holds for every watcher
\* of the dispatch, also when an earlier watcher of the same dispatch sets or
\* deletes k again.
C37_WatcherSeesItsMutation ==
    \A i \in 1..Len(storeObs.calls) :
        /\ storeObs.views[i].seen = storeObs.calls[i].new
        /\ storeObs.views[i].logged

\* the store after set(k, v) has been called for every property of the
\* source, one call after the other, in the order of the properties
RECURSIVE SetsInOrder(_, _)
SetsInOrder(S, source) ==
    IF source = <<>> THEN S
    ELSE SetsInOrder(TrapSet(S, Head(source).key, Head(source).val, 0), Tail(source))

\* the keys an object names
Named(source) == {source[i].key : i \in 1..Len(source)}

\* the records the call itself made for key k
OwnRecordsOf(obs, k) ==
    SelectSeq(obs.muts, LAMBDA m : m.depth = 0 /\ m.rec.property = k)

\* C32: set(object) behaves exactly as calling set(k, v) for each property
\* of the object in order: the same store, listeners, history, notifications
\* and records result; each key is compared, recorded and notified on its own;
\* a key whose value is unchanged produces no record and no notification; a
\* key the object does not name is left as it was, unless a watcher sets it.
C32_BatchSetIsSetPerKey ==
    [][StoreCall("setAll")
       => LET source == storeObs'.arg
              R      == SetsInOrder(StoreNow, source)
          IN  /\ state' = R.state
              /\ listeners' = R.listeners
              /\ history' = R.history
              /\ storeObs'.calls = R.calls
              /\ storeObs'.muts = R.muts
              /\ NoWatcherMutation(storeObs')
                 => /\ \A k \in Keys \ Named(source) :
                          /\ (k \in DOMAIN state') = (k \in DOMAIN state)
                          /\ Get(state', k) = Get(state, k)
                    /\ \A i \in 1..Len(source) :
                          OwnRecordsOf(storeObs', source[i].key)
                              = IF StrictEq(Get(state, source[i].key), source[i].val)
                                THEN <<>>
                                ELSE <<[rec |-> SetRecord(source[i].key,
                                                          Get(state, source[i].key),
                                                          source[i].val),
                                        depth |-> 0]>>]_vars

\* C32 witness: set({a: "v1", b: null}) has been called on a store that held
\* a = "v1" and no b, with watchers on both keys: only b was recorded and
\* only the watcher of b was notified
C32_Witness ==
    /\ storeObs.op = "setAll"
    /\ storeObs.arg = <<Prop("a", "v1"), Prop("b", JsNull)>>
    /\ {"a", "b"} \subseteq DOMAIN listeners
    /\ Len(storeObs.muts) = 1
    /\ storeObs.muts[1].rec.property = "b"
    /\ Len(storeObs.calls) = 1
    /\ storeObs.calls[1].key = "b"
    /\ Get(state, "a") = "v1"
    /\ Get(state, "b") = JsNull

(***************************************************************************)
(* Claims about the unsubscribe functions of StateManager and EventBus      *)
(***************************************************************************)
\* the registrations a map of listeners holds for a name or key
RegsIn(m, n) == IF n \in DOMAIN m THEN m[n] ELSE <<>>

\* the function returned for the i-th of the registrations regs has been
\* called twice: once is what the first call left, now what the second left
RemovedThatOnce(regs, i, once, after) == once = RemoveAt(regs, i) /\ after = once

\* the same by what the code does: each call removes the earliest remaining
\* registration of the callback fn, if there is one
RemovedEarliestEach(regs, fn, once, after) ==
    /\ once = RemoveAt(regs, IndexOf(regs, fn))
    /\ after = IF IndexOf(once, fn) > 0 THEN RemoveAt(once, IndexOf(once, fn)) ELSE once

\* C38 (as claimed): the unsubscribe function returned by on(name, cb) and by
\* watch(key, cb) is idempotent and specific to its registration: the first
\* call removes that registration, a second call removes nothing, also when
\* the same callback is registered more than once for the name or key.
C38_UnsubscribeIdempotentAndSpecific ==
    [][/\ StoreCall("unsubscribeTwice")
            => RemovedThatOnce(Watching(storeObs'.key), storeObs'.arg.i,
                               storeObs'.arg.once, RegsIn(listeners', storeObs'.key))
       /\ BusStep("unsubscribeTwice")
            => RemovedThatOnce(Subscribed(busObs'.name), busObs'.arg.i,
                               busObs'.arg.once, RegsIn(events', busObs'.name))]_vars

\* C38 (as the code has it): the unsubscribe function returned by
\* on(name, cb) and by watch(key, cb) removes, each time it is called, the
\* earliest registration of cb for the name or key that is still there, and
\* nothing when there is none; so it is idempotent and specific to its
\* registration when cb is registered once for the name or key, and with cb
\* registered more than once a second call removes another registration.
C38_UnsubscribeRemovesEarliestEachCall ==
    [][/\ StoreCall("unsubscribeTwice")
            => /\ RemovedEarliestEach(Watching(storeObs'.key), storeObs'.val,
                                      storeObs'.arg.once, RegsIn(listeners', storeObs'.key))
               /\ Occurrences(Watching(storeObs'.key), storeObs'.val) = 1
                    => RemovedThatOnce(Watching(storeObs'.key), storeObs'.arg.i,
                                       storeObs'.arg.once, RegsIn(listeners', storeObs'.key))
       /\ BusStep("unsubscribeTwice")
            => /\ RemovedEarliestEach(Subscribed(busObs'.name), busObs'.fn,
                                      busObs'.arg.once, RegsIn(events', busObs'.name))
               /\ Occurrences(Subscribed(busObs'.name), busObs'.fn) = 1
                    => RemovedThatOnce(Subscribed(busObs'.name), busObs'.arg.i,
                                       busObs'.arg.once, RegsIn(events', busObs'.name))]_vars

\* C38 witness: on the bus cb_ok was subscribed twice around cb_throws and
\* the function returned for its second subscription was called twice; in
\* the store w_ok, watching once beside w_throw, was unsubscribed twice
C38_Witness ==
    /\ busObs.op = "unsubscribeTwice"
    /\ busObs.snap = <<Direct("cb_ok"), Direct("cb_throws"), Direct("cb_ok")>>
    /\ busObs.arg.i = 3
    /\ Subscribed("f") = <<Direct("cb_throws")>>
    /\ storeObs.op = "unsubscribeTwice"
    /\ storeObs.val = "w_ok"
    /\ Watching("a") = <<"w_throw">>

====
